---------------------------- MODULE Spec2Model ----------------------------
(***************************************************************************)
(* A model of PerplexityMCPServer (src/src/index.ts): the single browser   *)
(* Session (browser and page handles, the setup guard, the last-search     *)
(* time), the tool-call handler running performSearch, session setup       *)
(* (initializeBrowser), the three-level recoveryProcedure, the idle        *)
(* timeout callback installed by resetIdleTimeout, the chat history kept   *)
(* by the tool-call handler and the SIGINT handler.  The functions that    *)
(* work on one value (error classification, the probe for the search       *)
(* input, answer extraction, answer clean-up) have specifications of their *)
(* own, over all their inputs up to a bound.                               *)
(*                                                                         *)
(* The server is a single-threaded event loop.  An async function runs     *)
(* without interruption from one await to the next; at an await it is      *)
(* suspended and any other suspended function, or a timer callback, may be *)
(* resumed.  A process is therefore either suspended at an await (its pc   *)
(* names the awaited operation) or it is the one process that is running   *)
(* (the variable running names it) and nobody else takes a step.           *)
(*                                                                         *)
(* The browser is the environment.  An awaited browser operation takes     *)
(* effect when it is resumed, on the object the call captured when it      *)
(* was made, and either completes or throws.  An operation on a closed     *)
(* page or browser throws; an operation on a live one throws only as long  *)
(* as the environment's fault budget lasts.                                *)
(***************************************************************************)
EXTENDS Integers, Sequences, FiniteSets, TLC

(***************************************************************************)
(* CONFIG, src/src/index.ts lines 88-105.  Durations are in milliseconds.  *)
(***************************************************************************)
SEARCH_COOLDOWN == 5000
MAX_RETRIES == 10
RECOVERY_WAIT_TIME == 15000

\* The fixed delays awaited in navigateToPerplexity (line 324) and after the
\* generation poll of performSearch (line 784).
SettleWait == 7000
RenderWait == 1000

(***************************************************************************)
(* Bounds of the model.                                                    *)
(***************************************************************************)
\* Browser processes and pages that can exist or be referred to at once.
MaxBrowsers == 2
MaxPages == 2
\* Faults the environment injects into live browser operations (a throw on a
\* live object, a challenge shown, an input that is not found) when one caller
\* runs.
MaxFaults == 2
\* Faults the environment injects while two calls overlap.
MaxRaceFaults == 1
\* Recoveries of one call that are followed when calls overlap or the idle timer
\* expires; the retry loop is followed to its end when one caller runs alone.
MaxRaceRecoveries == 1
\* The timers that can be pending at once.
MaxTimers == 2
\* The conversation identifiers the callers use.
MaxChats == 2
\* The steps of the clock: one that divides every delay of the program, and
\* one as long as its longest delay.
FineTick == RenderWait
CoarseTick == RECOVERY_WAIT_TIME

Min(a, b) == IF a < b THEN a ELSE b
Max(a, b) == IF a > b THEN a ELSE b

(***************************************************************************)
(* Error messages.  A message is the sequence of its characters, so that   *)
(* toLowerCase and includes are computed as the code computes them.        *)
(***************************************************************************)
MsgCaptchaDetected ==
  <<"C","a","p","t","c","h","a"," ","d","e","t","e","c","t","e","d">>
MsgSearchInputNotFound ==
  <<"S","e","a","r","c","h"," ","i","n","p","u","t"," ","n","o","t"," ","f","o","u","n","d">>
MsgFallbackRecovery ==
  <<"F","a","l","l","b","a","c","k"," ","r","e","c","o","v","e","r","y">>
MsgPageNotInitialized ==
  <<"P","a","g","e"," ","n","o","t"," ","i","n","i","t","i","a","l","i","z","e","d"," ","a","f","t","e","r"," ","s","e","t","u","p"," ","a","t","t","e","m","p","t">>
MsgMaxRetriesExceeded ==
  <<"F","a","i","l","e","d"," ","t","o"," ","p","e","r","f","o","r","m"," ","s","e","a","r","c","h"," ","a","f","t","e","r"," ","m","u","l","t","i","p","l","e"," ","a","t","t","e","m","p","t","s">>
MsgRetriesExhausted ==
  <<"F","a","i","l","e","d"," ","t","o"," ","c","o","m","p","l","e","t","e"," ","s","e","a","r","c","h"," ","a","f","t","e","r"," ","r","e","t","r","i","e","s">>
MsgAllNavigationFailed ==
  <<"A","l","l"," ","n","a","v","i","g","a","t","i","o","n"," ","s","t","r","a","t","e","g","i","e","s"," ","f","a","i","l","e","d">>
MsgNoInputAfterNavigation ==
  <<"S","e","a","r","c","h"," ","i","n","p","u","t"," ","n","o","t"," ","f","o","u","n","d"," ","a","f","t","e","r"," ","n","a","v","i","g","a","t","i","o","n">>
MsgFrameDetached ==
  <<"F","r","a","m","e"," ","w","a","s"," ","d","e","t","a","c","h","e","d">>
MsgNavigationTimeout ==
  <<"N","a","v","i","g","a","t","i","o","n"," ","t","i","m","e","o","u","t"," ","o","f"," ","4","5","0","0","0"," ","m","s"," ","e","x","c","e","e","d","e","d">>
MsgUnknownFailure ==
  <<"U","n","k","n","o","w","n"," ","f","a","i","l","u","r","e">>
MsgNullPage ==
  <<"C","a","n","n","o","t"," ","r","e","a","d"," ","p","r","o","p","e","r","t","i","e","s"," ","o","f"," ","n","u","l","l">>
MarkerFrame ==
  <<"f","r","a","m","e">>
MarkerDetached ==
  <<"d","e","t","a","c","h","e","d">>
MarkerTimeout ==
  <<"t","i","m","e","o","u","t">>
MarkerNavigation ==
  <<"n","a","v","i","g","a","t","i","o","n">>

(***************************************************************************)
(* An Error value as determineRecoveryLevel receives it: absent            *)
(* (undefined), or present with a message.                                 *)
(***************************************************************************)
NoError == [present |-> FALSE, message |-> <<>>]
ErrorOf(msg) == [present |-> TRUE, message |-> msg]

\* String.prototype.toLowerCase on the letters A-Z; other characters are kept.
UpperCase ==
  <<"A","B","C","D","E","F","G","H","I","J","K","L","M","N","O","P","Q","R","S","T","U","V","W","X","Y","Z">>
LowerCase ==
  <<"a","b","c","d","e","f","g","h","i","j","k","l","m","n","o","p","q","r","s","t","u","v","w","x","y","z">>
toLowerCaseChar(c) ==
  IF \E i \in 1..Len(UpperCase) : UpperCase[i] = c
  THEN LowerCase[CHOOSE i \in 1..Len(UpperCase) : UpperCase[i] = c]
  ELSE c
toLowerCase(s) == [i \in 1..Len(s) |-> toLowerCaseChar(s[i])]

\* String.prototype.includes: sub occurs in s as a contiguous substring.
includes(s, sub) ==
  \E i \in 1..(Len(s) - Len(sub) + 1) : SubSeq(s, i, i + Len(sub) - 1) = sub

(***************************************************************************)
(* determineRecoveryLevel, lines 493-504.  1 = page refresh, 2 = new page, *)
(* 3 = full restart.                                                       *)
(***************************************************************************)
Reload == 1
NewPage == 2
FullRestart == 3

\* The classification without the toLowerCase of line 496.
determineRecoveryLevel_CaseSensitive(error) ==
  IF ~error.present THEN FullRestart
  ELSE LET errorMsg == error.message
       IN IF includes(errorMsg, MarkerFrame) \/ includes(errorMsg, MarkerDetached)
          THEN NewPage
          ELSE IF includes(errorMsg, MarkerTimeout) \/ includes(errorMsg, MarkerNavigation)
               THEN Reload
               ELSE FullRestart

determineRecoveryLevel(error) ==
  IF ~error.present THEN FullRestart
  ELSE LET errorMsg == toLowerCase(error.message)
       IN IF includes(errorMsg, MarkerFrame) \/ includes(errorMsg, MarkerDetached)
          THEN NewPage
          ELSE IF includes(errorMsg, MarkerTimeout) \/ includes(errorMsg, MarkerNavigation)
               THEN Reload
               ELSE FullRestart

(***************************************************************************)
(* The errors that occur in the model, by name.  The first eight are       *)
(* thrown by the program itself (the line of each `new Error` is given),   *)
(* NullPage is the TypeError of calling a method on the null page handle,  *)
(* and the last three are the errors the browser throws into an awaited    *)
(* operation, one for each recovery level.                                 *)
(***************************************************************************)
ErrorMessage(e) ==
  CASE e = "CaptchaDetected"        -> MsgCaptchaDetected        \* line 707
    [] e = "SearchInputNotFound"    -> MsgSearchInputNotFound    \* line 717
    [] e = "FallbackRecovery"       -> MsgFallbackRecovery       \* line 557
    [] e = "PageNotInitialized"     -> MsgPageNotInitialized     \* line 686
    [] e = "MaxRetriesExceeded"     -> MsgMaxRetriesExceeded     \* line 819
    [] e = "RetriesExhausted"       -> MsgRetriesExhausted       \* line 826
    [] e = "AllNavigationFailed"    -> MsgAllNavigationFailed    \* line 319
    [] e = "NoInputAfterNavigation" -> MsgNoInputAfterNavigation \* line 342
    [] e = "NullPage"               -> MsgNullPage
    [] e = "FrameDetached"          -> MsgFrameDetached
    [] e = "NavigationTimeout"      -> MsgNavigationTimeout
    [] e = "UnknownFailure"         -> MsgUnknownFailure

EnvErrors == {"FrameDetached", "NavigationTimeout", "UnknownFailure"}
ErrorNames ==
  {"CaptchaDetected", "SearchInputNotFound", "FallbackRecovery", "PageNotInitialized",
   "MaxRetriesExceeded", "RetriesExhausted", "AllNavigationFailed", "NoInputAfterNavigation",
   "NullPage"} \cup EnvErrors
\* Line 507: the level determineRecoveryLevel gives to each of these errors.
recoveryLevelOf == [e \in ErrorNames |-> determineRecoveryLevel(ErrorOf(ErrorMessage(e)))]

Procs == {"s1", "s2"}
BrowserIds == 1..MaxBrowsers
PageIds == 1..MaxPages
TimerIds == 1..MaxTimers
ChatIds == 1..MaxChats

VARIABLES
  \* The Session: fields of PerplexityMCPServer, lines 161-175.  0 is null.
  browser,              \* this.browser
  page,                 \* this.page
  isInitializing,       \* this.isInitializing
  timeSinceLastSearch,  \* Date.now() - this.lastSearchTime, saturated at SEARCH_COOLDOWN
  idleTimeout,          \* this.idleTimeout: the timer set last, 0 for undefined
  pendingTimers,        \* the timers set by setTimeout, neither fired nor cleared
  clockFollowed,        \* whether the specification follows the age of the calls
  fullPeriod,           \* the calls in flight for IDLE_TIMEOUT_MS or longer
  \* The browser processes and pages that exist.
  browserOpen,          \* the launched browsers that are not closed
  pageOwner,            \* the browser of each open page, 0 for a page that is not open
  navigated,            \* the open pages on which navigateToPerplexity completed
  blank,                \* the open pages that no page.goto was made on
  \* The tool-call handlers and the idle callback.
  proc,                 \* per handler: its position and the locals of its call
  running,              \* the process that is running between two awaits, or "none"
  idlePc,               \* the position of the idle callback
  idleTgt,              \* the object whose close() the idle callback awaits
  \* The environment.
  faultsLeft,           \* faults the environment may still inject
  followed,             \* the recoveries of one call of each caller that the model follows
  inputExposed,         \* whether the site exposes any candidate input selector
  challengeShown,       \* whether the site shows a challenge on every page
  \* History of submissions (Enter pressed), for the rate limit.
  timeSinceEnter,       \* time since Enter was last pressed, saturated at SEARCH_COOLDOWN
  lastEnterPage,        \* the open page Enter was last pressed on, 0 if none
  \* The chat history, lines 210-247: the messages recorded under each
  \* conversation identifier, oldest first, and the identifiers the callers use.
  messages,
  chatIds,
  \* The database handle this.db (line 168) is open; the position of the
  \* SIGINT handler of lines 196-205 and the browser it is closing.
  dbOpen,
  sigPc,
  sigTgt,
  \* One navigation (SpecNavigate): what the browser does in it, the position
  \* in navigateToPerplexity, the load strategy the loop is at, the strategies
  \* attempted, the flag navigationSuccessful, the error on its way to the
  \* catch block and how the navigation ended.
  navFixture,
  navPc,
  navIndex,
  navTried,
  navigationSuccessful,
  navError,
  navResult,
  \* One wait for the answer (SpecPoll): what the page shows, the position in
  \* lines 752-808, Date.now() - startWaitTime, the flag isGenerating and how
  \* the attempt ended.
  pollDom,
  pollPc,
  pollElapsed,
  isGenerating,
  pollResult,
  \* The input and the result of one classification (SpecClassify).
  classifyInput,
  classifyResult,
  \* The clean-up of an extracted answer (SpecNormalize): the raw text, the
  \* text cleaned once and twice, and how often the clean-up has run.
  answerContent,
  cleanedAnswer,
  cleanedAgain,
  cleanCount,
  \* The extraction of the answer from the page (SpecExtract): how many
  \* elements of the page each answer selector matches, the visible text of
  \* the page, and the text the extraction returned (extractDone: it has run).
  domMatches,
  bodyInnerText,
  extracted,
  extractDone,
  \* The probe for the search input (SpecProbe): what the page holds for each
  \* candidate selector, the candidate the probe is at and its position in
  \* the loop body, the candidates tried, the field searchInputSelector
  \* (line 164) and what the probe returned.
  candidates,
  probeIndex,
  probePc,
  probeTried,
  searchInputSelector,
  probeResult

idleTimer == <<idleTimeout, pendingTimers, clockFollowed, fullPeriod>>
sessionVars == <<browser, page, isInitializing, timeSinceLastSearch, idleTimer>>
worldVars == <<browserOpen, pageOwner, navigated, blank>>
idleVars == <<idlePc, idleTgt>>
fixedVars == <<inputExposed, challengeShown, followed>>
envVars == <<faultsLeft, fixedVars>>
enterVars == <<timeSinceEnter, lastEnterPage>>
classifyVars == <<classifyInput, classifyResult>>
normalizeVars == <<answerContent, cleanedAnswer, cleanedAgain, cleanCount>>
extractVars == <<domMatches, bodyInnerText, extracted, extractDone>>
probeVars == <<candidates, probeIndex, probePc, probeTried, searchInputSelector, probeResult>>
navVars == <<navFixture, navPc, navIndex, navTried, navigationSuccessful, navError, navResult>>
pollVars == <<pollDom, pollPc, pollElapsed, isGenerating, pollResult>>
funVars == <<classifyVars, normalizeVars, extractVars, probeVars, navVars, pollVars>>
chatVars == <<messages, chatIds>>
shutdownVars == <<dbOpen, sigPc, sigTgt>>
otherVars == <<funVars, chatVars, shutdownVars>>
vars == <<sessionVars, worldVars, proc, running, idleVars, envVars, enterVars, otherVars>>

(***************************************************************************)
(* The awaits of the program.  At the first group the awaited call was     *)
(* made on a browser, at the second on a page; proc[p].tgt is that object. *)
(***************************************************************************)
BrowserAwaits == {"init_close", "init_newPage", "rec2_newPage", "rec3_closeBrowser"}
PageAwaits ==
  {"init_evasion", "init_navigate", "captcha", "findInput", "clear", "type", "press",
   "answer", "generating", "extract", "rec1_reload", "rec2_closePage", "rec2_evasion",
   "rec3_closePage"}
TimerAwaits == {"rateWait", "rec3_wait"}
\* Between its setting and its clearing of the guard a setup is at one of these.
SetupAwaits == {"init_close", "init_launch", "init_newPage", "init_evasion", "init_navigate"}

InitProc(calls) ==
  [pc |-> "none", retryCount |-> 0, attempts |-> 0, recoveries |-> 0, site |-> "none",
   levels |-> <<>>, tgt |-> 0, timer |-> 0, err |-> "none", errLevel |-> 0,
   outcome |-> "none", callsLeft |-> calls, chatId |-> 0, query |-> 0]

\* Lines 442-449.
possibleSelectors ==
  <<"textarea[placeholder*=\"Ask\"]", "textarea[placeholder*=\"Search\"]",
    "textarea.w-full", "textarea[rows=\"1\"]", "[role=\"textbox\"]", "textarea">>
\* No probe for the search input is made.
ProbeOff ==
  /\ candidates = [i \in 1..Len(possibleSelectors) |-> "absent"]
  /\ probeIndex = 1
  /\ probePc = "done"
  /\ probeTried = {}
  /\ searchInputSelector = possibleSelectors[1]
  /\ probeResult = "pending"

\* Line 295.
waitUntilOptions == <<"networkidle2", "domcontentloaded", "load">>
\* No navigation is followed step by step.
NavigateOff ==
  /\ navFixture = [goto |-> [i \in 1..Len(waitUntilOptions) |-> TRUE], url |-> [host |-> <<>>, rest |-> <<>>],
                   input |-> "found", shot |-> TRUE, shotInCatch |-> TRUE]
  /\ navPc = "done"
  /\ navIndex = 1
  /\ navTried = <<>>
  /\ navigationSuccessful = FALSE
  /\ navError = "none"
  /\ navResult = "pending"

\* The age of the calls is not followed.
ClockOff == clockFollowed = FALSE

\* No wait for an answer is followed step by step.
PollOff ==
  /\ pollDom = [container |-> FALSE, ariaStop |-> FALSE, pulse |-> FALSE]
  /\ pollPc = "done"
  /\ pollElapsed = 0
  /\ isGenerating = TRUE
  /\ pollResult = "pending"

\* No page is being extracted from.
ExtractOff ==
  /\ domMatches = <<0, 0, 0, 0>>
  /\ bodyInnerText = <<>>
  /\ extracted = <<>>
  /\ extractDone = FALSE

\* No answer is being cleaned.
NormalizeOff ==
  /\ answerContent = <<>>
  /\ cleanedAnswer = <<>>
  /\ cleanedAgain = <<>>
  /\ cleanCount = 0

\* State after construction (lines 161-175): no browser, no page, no timer.
\* lastSearchTime is 0, so Date.now() - lastSearchTime exceeds any cooldown.
InitSession ==
  /\ browser = 0
  /\ page = 0
  /\ isInitializing = FALSE
  /\ timeSinceLastSearch = SEARCH_COOLDOWN
  /\ idleTimeout = 0
  /\ pendingTimers = {}
  /\ fullPeriod = {}
  /\ browserOpen = {}
  /\ pageOwner = [pg \in PageIds |-> 0]
  /\ navigated = {}
  /\ blank = {}
  /\ running = "none"
  /\ idlePc = "off"
  /\ idleTgt = 0
  /\ timeSinceEnter = SEARCH_COOLDOWN
  /\ lastEnterPage = 0
  /\ classifyResult = 0
  /\ messages = [c \in ChatIds |-> <<>>]
  /\ dbOpen = TRUE
  /\ sigPc = "off"
  /\ sigTgt = 0

\* Two tool calls that may overlap, with the environment's faults bounded.
Init ==
  /\ InitSession
  /\ proc = [p \in Procs |-> InitProc(1)]
  /\ faultsLeft = MaxRaceFaults
  /\ inputExposed = TRUE
  /\ challengeShown = FALSE
  /\ followed = [p \in Procs |-> MaxRaceRecoveries]
  /\ classifyInput = NoError
  /\ NormalizeOff
  /\ ExtractOff
  /\ ProbeOff
  /\ NavigateOff
  /\ PollOff
  /\ ClockOff
  /\ chatIds = {1}

\* One caller making two calls one after the other while the idle timer may
\* expire.
InitIdle ==
  /\ InitSession
  /\ proc = [p \in Procs |-> InitProc(IF p = "s1" THEN 2 ELSE 0)]
  /\ faultsLeft = MaxFaults
  /\ inputExposed = TRUE
  /\ challengeShown = FALSE
  /\ followed = [p \in Procs |-> MaxRaceRecoveries]
  /\ classifyInput = NoError
  /\ NormalizeOff
  /\ ExtractOff
  /\ ProbeOff
  /\ NavigateOff
  /\ PollOff
  /\ ClockOff
  /\ chatIds = {1}

\* Two tool calls that may overlap while the idle timer may expire; the second
\* caller is followed up to its first recovery.
InitIdleRace ==
  /\ InitSession
  /\ proc = [p \in Procs |-> InitProc(1)]
  /\ faultsLeft = 0
  /\ inputExposed = TRUE
  /\ challengeShown = FALSE
  /\ followed = [p \in Procs |-> IF p = "s1" THEN MaxRaceRecoveries ELSE 0]
  /\ classifyInput = NoError
  /\ NormalizeOff
  /\ ExtractOff
  /\ ProbeOff
  /\ NavigateOff
  /\ PollOff
  /\ ClockOff
  /\ chatIds = {1}

\* One caller making two calls one after the other, against a site that does or
\* does not expose an input, or that answers every page with a challenge.
InitSeq ==
  /\ InitSession
  /\ proc = [p \in Procs |-> InitProc(IF p = "s1" THEN 2 ELSE 0)]
  /\ faultsLeft = MaxFaults
  /\ inputExposed \in BOOLEAN
  /\ challengeShown \in (IF inputExposed THEN BOOLEAN ELSE {FALSE})
  /\ followed = [p \in Procs |-> 2 * MAX_RETRIES + 2]
  /\ classifyInput = NoError
  /\ NormalizeOff
  /\ ExtractOff
  /\ ProbeOff
  /\ NavigateOff
  /\ PollOff
  /\ ClockOff
  /\ chatIds = {1}

(***************************************************************************)
(* The environment: what an awaited browser operation can do when resumed. *)
(* An outcome is [res, cost]: res is "ok" or the name of the error thrown, *)
(* cost is 1 when the environment spends a fault on it.                    *)
(***************************************************************************)
CanFault == faultsLeft # 0
Charge(cost) == faultsLeft' = IF faultsLeft > 0 THEN faultsLeft - cost ELSE faultsLeft
Ok == [res |-> "ok", cost |-> 0]
Throws(errors, cost) == {[res |-> e, cost |-> cost] : e \in errors}
Faults(errors) == IF CanFault THEN Throws(errors, 1) ELSE {}

PageLive(pg) == pg \in PageIds /\ pageOwner[pg] # 0
BrowserLive(b) == b \in browserOpen

\* evaluate, type, press, waitForSelector, reload, setViewport, ... on page pg.
PageOp(pg) ==
  IF PageLive(pg) THEN {Ok} \cup Faults(EnvErrors) ELSE Throws(EnvErrors, 0)
\* page.close() and browser.close(): closing what is already closed may
\* complete or throw.
PageClose(pg) ==
  IF PageLive(pg) THEN {Ok} \cup Faults(EnvErrors) ELSE {Ok} \cup Throws(EnvErrors, 0)
BrowserClose(b) ==
  IF BrowserLive(b) THEN {Ok} \cup Faults(EnvErrors) ELSE {Ok} \cup Throws(EnvErrors, 0)

\* The objects some handle or some pending call refers to; any other
\* identifier can name a new object.
BrowserRefs ==
  {browser} \cup browserOpen
    \cup {proc[p].tgt : p \in {q \in Procs : proc[q].pc \in BrowserAwaits}}
    \cup (IF idlePc = "closeBrowser" THEN {idleTgt} ELSE {})
    \cup (IF sigPc # "off" THEN {sigTgt} ELSE {})
PageRefs ==
  {page, lastEnterPage} \cup {pg \in PageIds : pageOwner[pg] # 0}
    \cup {proc[p].tgt : p \in {q \in Procs : proc[q].pc \in PageAwaits}}
    \cup (IF idlePc = "closePage" THEN {idleTgt} ELSE {})
FreeBrowsers == BrowserIds \ BrowserRefs
FreePages == PageIds \ PageRefs
FreshBrowser == CHOOSE b \in FreeBrowsers : \A c \in FreeBrowsers : b <= c
FreshPage == CHOOSE pg \in FreePages : \A c \in FreePages : pg <= c

\* puppeteer.launch() and browser.newPage().
Launch == IF FreeBrowsers # {} THEN {Ok} \cup Faults(EnvErrors) ELSE Throws(EnvErrors, 0)
NewPageOp(b) ==
  IF BrowserLive(b) /\ FreePages # {} THEN {Ok} \cup Faults(EnvErrors)
  ELSE Throws(EnvErrors, 0)

\* The effect of closing pages and browsers on what exists.
ClosePages(S) ==
  /\ pageOwner' = [pg \in PageIds |-> IF pg \in S THEN 0 ELSE pageOwner[pg]]
  /\ navigated' = navigated \ S
  /\ blank' = blank \ S
  /\ lastEnterPage' = IF lastEnterPage \in S THEN 0 ELSE lastEnterPage
  /\ timeSinceEnter' = IF lastEnterPage \in S THEN SEARCH_COOLDOWN ELSE timeSinceEnter
CloseBrowser(b) ==
  /\ browserOpen' = browserOpen \ {b}
  /\ ClosePages({pg \in PageIds : pageOwner[pg] = b /\ b # 0})
NothingCloses == UNCHANGED <<worldVars, enterVars>>

(***************************************************************************)
(* Moving a handler.  A handler whose new position is an await is          *)
(* suspended; otherwise it keeps running and takes the next step itself.   *)
(***************************************************************************)
AwaitPcs == BrowserAwaits \cup PageAwaits \cup TimerAwaits \cup {"init_launch", "none"}
Move(p, r) ==
  /\ proc' = [proc EXCEPT ![p] = r]
  /\ running' = IF r.pc \in AwaitPcs THEN "none" ELSE p
\* A handler held back at its awaits while another call is between its
\* submission and its extraction.
Resumes_Serialized(p, at) ==
  /\ running = "none"
  /\ proc[p].pc = at
  /\ \A q \in Procs \ {p} : proc[q].pc \notin {"answer", "generating", "extract"}
Resumes(p, at) == running = "none" /\ proc[p].pc = at
Runs(p, at) == running = p /\ proc[p].pc = at

\* The level of the recoveryProcedure call r is in, 0 outside recovery.
CurLevel(r) == IF r.levels = <<>> THEN 0 ELSE r.levels[Len(r.levels)]
\* r suspended at the await `at` of a call made on `target`.
Suspend(r, at, target) ==
  [r EXCEPT !.pc = at, !.tgt = target, !.timer = 0, !.err = "none", !.errLevel = 0]
\* r suspended at a setTimeout of `ms`.
Sleep(r, at, ms) ==
  [r EXCEPT !.pc = at, !.tgt = 0, !.timer = ms, !.err = "none", !.errLevel = 0]
\* r continuing at `to`, the handler of error e.
Raise(r, to, e) ==
  [r EXCEPT !.pc = to, !.tgt = 0, !.timer = 0, !.err = e, !.errLevel = CurLevel(r)]
Goto(r, to) == [r EXCEPT !.pc = to, !.tgt = 0, !.timer = 0]
\* r calling recoveryProcedure(e) from the place `s` of the retry loop.
Recover(r, e, s) ==
  [r EXCEPT !.pc = "recoveryProcedure", !.tgt = 0, !.timer = 0, !.err = e, !.errLevel = 0,
            !.site = s, !.recoveries = @ + 1]
\* The next call on this.page inside the try block: a null page is a TypeError.
NextPageOp(r, next) ==
  IF page = 0 THEN Raise(r, "catch", "NullPage") ELSE Suspend(r, next, page)

(***************************************************************************)
(* resetIdleTimeout, lines 564-569 and 589: the timer the field holds is   *)
(* cleared and a new one is set.  A timer is named by a number; the number *)
(* of a timer that has fired or was cleared names a later timer again.     *)
(***************************************************************************)
\* clearTimeout leaving the timer pending.
clearTimeout_Ignored(timers, t) == timers
\* clearTimeout(t), line 566: t does not fire any more; clearing a timer that
\* has fired changes nothing.
clearTimeout(timers, t) == timers \ {t}
\* setTimeout, line 569: the timer it returns.
setTimeout(timers) == CHOOSE t \in TimerIds \ timers : \A u \in TimerIds \ timers : t <= u
resetIdleTimeout ==
  LET timers == IF idleTimeout # 0 THEN clearTimeout(pendingTimers, idleTimeout)
                ELSE pendingTimers
  IN /\ TimerIds \ timers # {}
     /\ idleTimeout' = setTimeout(timers)
     /\ pendingTimers' = timers \cup {setTimeout(timers)}
     /\ UNCHANGED clockFollowed

\* The ListTools handler, lines 595-618: resetIdleTimeout, then the list of
\* tools is returned.
listTools ==
  /\ running = "none"
  /\ resetIdleTimeout
  /\ UNCHANGED fullPeriod
  /\ UNCHANGED <<browser, page, isInitializing, timeSinceLastSearch, worldVars, proc, running,
                 idleVars, envVars, enterVars, otherVars>>

(***************************************************************************)
(* The CallTool handler, lines 620-675: resetIdleTimeout, then             *)
(* performSearch inside try/catch.                                         *)
(***************************************************************************)
\* Lines 229-236: the messages recorded under chatId, oldest first.
getChatHistory(chatId) == messages[chatId]
\* Lines 238-247: the message is appended to those of chatId.  The row of the
\* table chats is left out: nothing reads it.
saveChatMessage(chatId, message) == [messages EXCEPT ![chatId] = Append(@, message)]
\* Lines 642-645 and 659-662.
userMessage(query) == [role |-> "user", content |-> <<"query", query>>]
assistantMessage(query) == [role |-> "assistant", content |-> <<"answer", query>>]

\* Lines 620-654.  The call carries the conversation identifier info.callId
\* and a query that no earlier call of this caller carried.  On a closed
\* database getChatHistory throws, outside the try block.
callTool(p) ==
  /\ Resumes(p, "none")
  /\ proc[p].callsLeft > 0
  /\ resetIdleTimeout
  /\ fullPeriod' = fullPeriod \ {p}
  /\ \E chatId \in chatIds :
       LET query == proc[p].callsLeft
           r == [proc[p] EXCEPT !.retryCount = 0, !.attempts = 0,
                                !.recoveries = 0, !.site = "none", !.levels = <<>>,
                                !.outcome = "none", !.callsLeft = @ - 1,
                                !.chatId = chatId, !.query = query]
       IN IF dbOpen
          THEN /\ messages' = IF Len(getChatHistory(chatId)) = 0
                              THEN saveChatMessage(chatId, userMessage(query))
                              ELSE messages
               /\ Move(p, [r EXCEPT !.pc = "performSearch"])
          ELSE /\ Move(p, [r EXCEPT !.outcome = "DatabaseClosed"])
               /\ UNCHANGED messages
  /\ UNCHANGED <<browser, page, isInitializing, timeSinceLastSearch, worldVars, idleVars,
                 envVars, enterVars, funVars, chatIds, shutdownVars>>

\* Lines 656-667: performSearch returned.  On a closed database
\* saveChatMessage throws into the catch block of line 668.
callReturned(p) ==
  /\ Runs(p, "callReturned")
  /\ IF dbOpen
     THEN /\ messages' = saveChatMessage(proc[p].chatId, assistantMessage(proc[p].query))
          /\ Move(p, [Goto(proc[p], "none") EXCEPT !.outcome = "ok", !.err = "none",
                                                   !.errLevel = 0, !.site = "none"])
     ELSE /\ UNCHANGED messages
          /\ Move(p, [Goto(proc[p], "none") EXCEPT !.outcome = "DatabaseClosed",
                                                   !.err = "none", !.errLevel = 0,
                                                   !.site = "none"])
  /\ UNCHANGED <<sessionVars, worldVars, idleVars, envVars, enterVars, funVars, chatIds,
                 shutdownVars>>

\* Lines 668-674: performSearch threw; the error goes to the client.
callFailed(p) ==
  /\ Runs(p, "callFailed")
  /\ Move(p, [Goto(proc[p], "none") EXCEPT !.outcome = proc[p].err, !.err = "none",
                                           !.errLevel = 0, !.site = "none", !.levels = <<>>])
  /\ UNCHANGED <<sessionVars, worldVars, idleVars, envVars, enterVars, otherVars>>

(***************************************************************************)
(* performSearch, lines 680-696: setup if there is no browser or no page,  *)
(* then the rate limit.                                                    *)
(***************************************************************************)
performSearch(p) ==
  /\ Runs(p, "performSearch")
  /\ Move(p, Goto(proc[p], IF browser = 0 \/ page = 0 THEN "initializeBrowser"
                           ELSE "rateLimit"))
  /\ UNCHANGED <<sessionVars, worldVars, idleVars, envVars, enterVars, otherVars>>

\* Line 686, after initializeBrowser returned to performSearch.
afterInit(p) ==
  /\ Runs(p, "afterInit")
  /\ Move(p, IF page = 0 THEN Raise(proc[p], "callFailed", "PageNotInitialized")
             ELSE Goto(proc[p], "rateLimit"))
  /\ UNCHANGED <<sessionVars, worldVars, idleVars, envVars, enterVars, otherVars>>

\* Lines 689-696.  Without a wait the time is stamped at once.
rateLimit(p) ==
  /\ Runs(p, "rateLimit")
  /\ IF timeSinceLastSearch < SEARCH_COOLDOWN
     THEN /\ Move(p, Sleep(proc[p], "rateWait", SEARCH_COOLDOWN - timeSinceLastSearch))
          /\ UNCHANGED timeSinceLastSearch
     ELSE /\ Move(p, Goto(proc[p], "attempt"))
          /\ timeSinceLastSearch' = 0
  /\ UNCHANGED <<browser, page, isInitializing, idleTimer, worldVars, idleVars, envVars,
                 enterVars, otherVars>>

\* The wait is over and the time of the search is not written.
rateWait_NoStamp(p) ==
  /\ Resumes(p, "rateWait")
  /\ proc[p].timer = 0
  /\ Move(p, Goto(proc[p], "attempt"))
  /\ UNCHANGED <<browser, page, isInitializing, timeSinceLastSearch, idleTimer, worldVars,
                 idleVars, envVars, enterVars, otherVars>>
\* Lines 694-696: the wait is over, this.lastSearchTime = Date.now().
rateWait(p) ==
  /\ Resumes(p, "rateWait")
  /\ proc[p].timer = 0
  /\ timeSinceLastSearch' = 0
  /\ Move(p, Goto(proc[p], "attempt"))
  /\ UNCHANGED <<browser, page, isInitializing, idleTimer, worldVars, idleVars, envVars,
                 enterVars, otherVars>>

(***************************************************************************)
(* The retry loop, lines 698-826.                                          *)
(***************************************************************************)
\* The loop condition letting one more iteration through.
LoopContinues_OneMore(retryCount) == retryCount <= MAX_RETRIES + 1

\* The loop condition, line 699.
LoopContinues(retryCount) == retryCount <= MAX_RETRIES
\* The catch block calling recovery at the maximum as well.
RetriesRemain_AtMaximum(retryCount) == retryCount <= MAX_RETRIES
\* The condition of the catch block, line 814.
RetriesRemain(retryCount) == retryCount < MAX_RETRIES

\* waitForSearchInput returned null, lines 715-719.
\* The loop going on to the typing with no selector resolved.
InputMissing_Proceeds(r) == NextPageOp(r, "clear")
InputMissing(r) == Recover(r, "SearchInputNotFound", "input")

\* The head of the loop and the start of an attempt, lines 699-714, and the throw
\* after the loop, line 826.  On a null page checkForCaptcha returns false (478)
\* and waitForSearchInput returns null (441) without awaiting the browser.
attempt(p) ==
  /\ Runs(p, "attempt")
  /\ LET r == proc[p]
         a == [r EXCEPT !.attempts = @ + 1, !.site = "none", !.levels = <<>>]
     IN Move(p, IF ~LoopContinues(r.retryCount) THEN Raise(r, "callFailed", "RetriesExhausted")
                ELSE IF page = 0 THEN InputMissing(a)
                ELSE Suspend(a, "captcha", page))
  /\ UNCHANGED <<sessionVars, worldVars, idleVars, envVars, enterVars, otherVars>>

\* checkForCaptcha, lines 477-491 and 704-714: the evaluate resolves to true or
\* false, or throws into the try block.
ChallengeCheck(pg) ==
  IF ~PageLive(pg) THEN Throws(EnvErrors, 0)
  ELSE IF challengeShown /\ pg \notin blank THEN Throws({"captcha"}, 0) \cup Faults(EnvErrors)
  ELSE {Ok} \cup Faults(EnvErrors \cup {"captcha"})
captcha(p) ==
  /\ Resumes(p, "captcha")
  /\ LET r == proc[p]
     IN \E o \in ChallengeCheck(r.tgt) :
          /\ Charge(o.cost)
          /\ Move(p, CASE o.res = "ok" -> IF page = 0 THEN InputMissing(r)
                                          ELSE Suspend(r, "findInput", page)
                       [] o.res = "captcha" -> Recover(r, "CaptchaDetected", "captcha")
                       [] OTHER -> Raise(r, "catch", o.res))
  /\ UNCHANGED <<sessionVars, worldVars, idleVars, fixedVars, enterVars, otherVars>>

\* waitForSearchInput, lines 438-475, as a whole: every candidate's wait is inside
\* a try/catch, so it returns the selector found, or takes the screenshot of
\* line 472 and returns null, or that screenshot throws.  A page that no
\* page.goto was made on shows no input and no challenge.
InputSearch(pg) ==
  IF ~PageLive(pg) THEN Throws(EnvErrors, 0)
  ELSE (IF inputExposed /\ pg \notin blank
        THEN {[res |-> "found", cost |-> 0]} \cup Faults({"null"})
        ELSE {[res |-> "null", cost |-> 0]})
       \cup Faults(EnvErrors)

findInput(p) ==
  /\ Resumes(p, "findInput")
  /\ LET r == proc[p]
     IN \E o \in InputSearch(r.tgt) :
          /\ Charge(o.cost)
          /\ Move(p, CASE o.res = "found" -> NextPageOp(r, "clear")
                       [] o.res = "null" -> InputMissing(r)
                       [] OTHER -> Raise(r, "catch", o.res))
  /\ UNCHANGED <<sessionVars, worldVars, idleVars, fixedVars, enterVars, otherVars>>

\* One awaited call on the page inside the try block, followed by the next.
PipelineStep(p, here, next) ==
  /\ Resumes(p, here)
  /\ LET r == proc[p]
     IN \E o \in PageOp(r.tgt) :
          /\ Charge(o.cost)
          /\ Move(p, IF o.res = "ok" THEN NextPageOp(r, next) ELSE Raise(r, "catch", o.res))
  /\ UNCHANGED <<sessionVars, worldVars, idleVars, fixedVars, otherVars>>

\* Lines 724-729, 733, 752-755.
clearInput(p) == PipelineStep(p, "clear", "type") /\ UNCHANGED enterVars
typeQuery(p) == PipelineStep(p, "type", "press") /\ UNCHANGED enterVars
waitForAnswer(p) ==
  /\ Resumes(p, "answer")
  /\ LET r == proc[p]
     IN \E o \in PageOp(r.tgt) :
          /\ Charge(o.cost)
          /\ Move(p, IF o.res # "ok" THEN Raise(r, "catch", o.res)
                     ELSE IF page = 0 THEN Raise(r, "catch", "NullPage")
                     ELSE [Suspend(r, "generating", page) EXCEPT !.timer = RenderWait])
  /\ UNCHANGED <<sessionVars, worldVars, idleVars, fixedVars, enterVars, otherVars>>

\* Line 737: Enter is pressed, the query is submitted to the page.
pressEnter(p) ==
  /\ Resumes(p, "press")
  /\ LET r == proc[p]
     IN \E o \in PageOp(r.tgt) :
          /\ Charge(o.cost)
          /\ Move(p, IF o.res = "ok" THEN NextPageOp(r, "answer") ELSE Raise(r, "catch", o.res))
          /\ IF o.res = "ok"
             THEN timeSinceEnter' = 0 /\ lastEnterPage' = r.tgt
             ELSE UNCHANGED enterVars
  /\ UNCHANGED <<sessionVars, worldVars, idleVars, fixedVars, otherVars>>

\* Lines 761-784: the poll for the end of the generation and the wait of line
\* 784, as one operation on the page: it completes and the extraction follows,
\* or an evaluate of the poll throws into the try block.  SpecPoll follows the
\* poll round by round.
waitForGeneration(p) ==
  /\ Resumes(p, "generating")
  /\ LET r == proc[p]
     IN \E o \in PageOp(r.tgt) :
          /\ o.res = "ok" => r.timer = 0
          /\ Charge(o.cost)
          /\ Move(p, IF o.res = "ok" THEN NextPageOp(r, "extract") ELSE Raise(r, "catch", o.res))
  /\ UNCHANGED <<sessionVars, worldVars, idleVars, fixedVars, enterVars, otherVars>>

\* Lines 788-808: the extraction; the cleaned answer is returned.
extract(p) ==
  /\ Resumes(p, "extract")
  /\ LET r == proc[p]
     IN \E o \in PageOp(r.tgt) :
          /\ Charge(o.cost)
          /\ Move(p, IF o.res = "ok" THEN Goto(r, "callReturned") ELSE Raise(r, "catch", o.res))
  /\ UNCHANGED <<sessionVars, worldVars, idleVars, fixedVars, enterVars, otherVars>>

\* The catch block of the loop, lines 810-823.
catch(p) ==
  /\ Runs(p, "catch")
  /\ LET r == proc[p]
     IN Move(p, IF RetriesRemain(r.retryCount) THEN Recover(r, r.err, "catch")
                ELSE Raise(r, "callFailed", "MaxRetriesExceeded"))
  /\ UNCHANGED <<sessionVars, worldVars, idleVars, envVars, enterVars, otherVars>>

(***************************************************************************)
(* initializeBrowser, lines 251-287.                                       *)
(***************************************************************************)
\* Lines 252-261: the guard, then the first await.
initializeBrowser(p) ==
  /\ Runs(p, "initializeBrowser")
  /\ IF isInitializing
     THEN /\ Move(p, Goto(proc[p], "initReturned"))
          /\ UNCHANGED isInitializing
     ELSE /\ isInitializing' = TRUE
          /\ Move(p, IF browser # 0 THEN Suspend(proc[p], "init_close", browser)
                     ELSE Suspend(proc[p], "init_launch", 0))
  /\ UNCHANGED <<browser, page, timeSinceLastSearch, idleTimer, worldVars, idleVars,
                 envVars, enterVars, otherVars>>

\* initializeBrowser returned normally: to performSearch (line 683) or to the
\* full restart of recoveryProcedure (line 546).
initReturned(p) ==
  /\ Runs(p, "initReturned")
  /\ Move(p, Goto(proc[p], IF proc[p].levels = <<>> THEN "afterInit" ELSE "recoveryReturned"))
  /\ UNCHANGED <<sessionVars, worldVars, idleVars, envVars, enterVars, otherVars>>

\* Lines 281-286: a step of the setup threw e.  The guard is cleared and e goes
\* to the caller: out of performSearch (line 683 is outside its try block), or
\* into the catch block of recoveryProcedure.  (First, the same without the
\* finally block.)
InitThrows_GuardKept(p, e) ==
  /\ UNCHANGED isInitializing
  /\ Move(p, Raise(proc[p], IF proc[p].levels = <<>> THEN "callFailed" ELSE "recoveryCatch", e))
InitThrows(p, e) ==
  /\ isInitializing' = FALSE
  /\ Move(p, Raise(proc[p], IF proc[p].levels = <<>> THEN "callFailed" ELSE "recoveryCatch", e))
\* Lines 284-286 on the normal path.
InitCompletes(p) ==
  /\ isInitializing' = FALSE
  /\ Move(p, Goto(proc[p], "initReturned"))

\* Lines 258-261: the old browser is closed, launch is called.
init_close(p) ==
  /\ Resumes(p, "init_close")
  /\ \E o \in BrowserClose(proc[p].tgt) :
       /\ Charge(o.cost)
       /\ IF o.res = "ok"
          THEN /\ CloseBrowser(proc[p].tgt)
               /\ Move(p, Suspend(proc[p], "init_launch", 0))
               /\ UNCHANGED isInitializing
          ELSE /\ NothingCloses
               /\ InitThrows(p, o.res)
  /\ UNCHANGED <<browser, page, timeSinceLastSearch, idleTimer, idleVars, fixedVars, otherVars>>

\* Lines 261-275: this.browser = the launched browser, newPage is called on it.
init_launch(p) ==
  /\ Resumes(p, "init_launch")
  /\ \E o \in Launch :
       /\ Charge(o.cost)
       /\ IF o.res = "ok"
          THEN /\ browser' = FreshBrowser
               /\ browserOpen' = browserOpen \cup {FreshBrowser}
               /\ Move(p, Suspend(proc[p], "init_newPage", FreshBrowser))
               /\ UNCHANGED isInitializing
          ELSE /\ InitThrows(p, o.res)
               /\ UNCHANGED <<browser, browserOpen>>
  /\ UNCHANGED <<page, timeSinceLastSearch, idleTimer, pageOwner, navigated, blank, idleVars,
                 fixedVars, enterVars, otherVars>>

\* Lines 275-276: this.page = the new page; setupBrowserEvasion is called.
init_newPage(p) ==
  /\ Resumes(p, "init_newPage")
  /\ \E o \in NewPageOp(proc[p].tgt) :
       /\ Charge(o.cost)
       /\ IF o.res = "ok"
          THEN /\ page' = FreshPage
               /\ pageOwner' = [pageOwner EXCEPT ![FreshPage] = proc[p].tgt]
               /\ blank' = blank \cup {FreshPage}
               /\ Move(p, Suspend(proc[p], "init_evasion", FreshPage))
               /\ UNCHANGED isInitializing
          ELSE /\ InitThrows(p, o.res)
               /\ UNCHANGED <<page, pageOwner, blank>>
  /\ UNCHANGED <<browser, timeSinceLastSearch, idleTimer, browserOpen, navigated, idleVars,
                 fixedVars, enterVars, otherVars>>

\* Lines 276-280: the evasion script, the viewport and the user agent, then
\* navigateToPerplexity, which throws at once on a null page (line 290).
init_evasion(p) ==
  /\ Resumes(p, "init_evasion")
  /\ \E o \in PageOp(proc[p].tgt) :
       /\ Charge(o.cost)
       /\ IF o.res = "ok" /\ page # 0
          THEN /\ Move(p, [Suspend(proc[p], "init_navigate", page) EXCEPT !.timer = SettleWait])
               /\ UNCHANGED isInitializing
          ELSE InitThrows(p, IF o.res = "ok" THEN "NullPage" ELSE o.res)
  /\ UNCHANGED <<browser, page, timeSinceLastSearch, idleTimer, worldVars, idleVars,
                 fixedVars, enterVars, otherVars>>

\* navigateToPerplexity, lines 289-361, as a whole: it returns when a load
\* strategy succeeded, the settle time passed and an input was found; it
\* throws when every strategy failed, when no input was found after the
\* settle time, or when the browser throws into it.
Navigation(pg, settled) ==
  IF ~PageLive(pg) THEN Throws({"AllNavigationFailed"} \cup EnvErrors, 0)
  ELSE (IF settled
        THEN (IF inputExposed
              THEN {Ok} \cup Faults({"NoInputAfterNavigation"})
              ELSE Throws({"NoInputAfterNavigation"}, 0))
        ELSE {})
       \cup Faults({"AllNavigationFailed"} \cup EnvErrors)

init_navigate(p) ==
  /\ Resumes(p, "init_navigate")
  /\ \E o \in Navigation(proc[p].tgt, proc[p].timer = 0) :
       /\ Charge(o.cost)
       /\ IF o.res = "ok"
          THEN /\ navigated' = navigated \cup {proc[p].tgt}
               /\ InitCompletes(p)
          ELSE /\ UNCHANGED navigated
               /\ InitThrows(p, o.res)
       /\ blank' = IF o.res = "AllNavigationFailed" THEN blank ELSE blank \ {proc[p].tgt}
  /\ UNCHANGED <<browser, page, timeSinceLastSearch, idleTimer, browserOpen, pageOwner,
                 idleVars, fixedVars, enterVars, otherVars>>

(***************************************************************************)
(* recoveryProcedure, lines 506-562.  proc[p].levels holds the levels of   *)
(* the calls of recoveryProcedure that are active, the innermost last.     *)
(***************************************************************************)
\* Lines 543-545: both handles are cleared, the recovery wait starts.
ClearHandles(p, r) ==
  /\ page' = 0
  /\ browser' = 0
  /\ Move(p, Sleep(r, "rec3_wait", RECOVERY_WAIT_TIME))

\* Lines 507-545 up to the first await.
recoveryProcedure(p) ==
  /\ Runs(p, "recoveryProcedure")
  /\ proc[p].recoveries <= followed[p]
  /\ LET recoveryLevel == recoveryLevelOf[proc[p].err]
         r == [proc[p] EXCEPT !.levels = Append(@, recoveryLevel), !.err = "none",
                              !.errLevel = 0]
     IN CASE recoveryLevel = Reload ->
               /\ Move(p, IF page # 0 THEN Suspend(r, "rec1_reload", page)
                          ELSE Goto(r, "recoveryReturned"))
               /\ UNCHANGED <<browser, page>>
          [] recoveryLevel = NewPage ->
               /\ Move(p, IF page # 0 THEN Suspend(r, "rec2_closePage", page)
                          ELSE IF browser # 0 THEN Suspend(r, "rec2_newPage", browser)
                          ELSE Goto(r, "recoveryReturned"))
               /\ UNCHANGED <<browser, page>>
          [] OTHER ->
               IF page # 0
               THEN Move(p, Suspend(r, "rec3_closePage", page)) /\ UNCHANGED <<browser, page>>
               ELSE IF browser # 0
               THEN Move(p, Suspend(r, "rec3_closeBrowser", browser)) /\ UNCHANGED <<browser, page>>
               ELSE ClearHandles(p, r)
  /\ UNCHANGED <<isInitializing, timeSinceLastSearch, idleTimer, worldVars, idleVars,
                 envVars, enterVars, otherVars>>

\* Line 517: the reload.
rec1_reload(p) ==
  /\ Resumes(p, "rec1_reload")
  /\ \E o \in PageOp(proc[p].tgt) :
       /\ Charge(o.cost)
       /\ Move(p, IF o.res = "ok" THEN Goto(proc[p], "recoveryReturned")
                  ELSE Raise(proc[p], "recoveryCatch", o.res))
  /\ UNCHANGED <<sessionVars, worldVars, idleVars, fixedVars, enterVars, otherVars>>

\* Lines 523-527: the page is closed; newPage is called if there is a browser.
rec2_closePage(p) ==
  /\ Resumes(p, "rec2_closePage")
  /\ \E o \in PageClose(proc[p].tgt) :
       /\ Charge(o.cost)
       /\ IF o.res = "ok"
          THEN /\ ClosePages({proc[p].tgt})
               /\ Move(p, IF browser # 0 THEN Suspend(proc[p], "rec2_newPage", browser)
                          ELSE Goto(proc[p], "recoveryReturned"))
          ELSE /\ UNCHANGED <<pageOwner, navigated, blank, enterVars>>
               /\ Move(p, Raise(proc[p], "recoveryCatch", o.res))
  /\ UNCHANGED <<sessionVars, browserOpen, idleVars, fixedVars, otherVars>>

\* Lines 527-528: this.page = the new page; setupBrowserEvasion is called.
rec2_newPage(p) ==
  /\ Resumes(p, "rec2_newPage")
  /\ \E o \in NewPageOp(proc[p].tgt) :
       /\ Charge(o.cost)
       /\ IF o.res = "ok"
          THEN /\ page' = FreshPage
               /\ pageOwner' = [pageOwner EXCEPT ![FreshPage] = proc[p].tgt]
               /\ blank' = blank \cup {FreshPage}
               /\ Move(p, Suspend(proc[p], "rec2_evasion", FreshPage))
          ELSE /\ UNCHANGED <<page, pageOwner, blank>>
               /\ Move(p, Raise(proc[p], "recoveryCatch", o.res))
  /\ UNCHANGED <<browser, isInitializing, timeSinceLastSearch, idleTimer, browserOpen,
                 navigated, idleVars, fixedVars, enterVars, otherVars>>

\* Lines 528-530: the evasion script, the viewport and the user agent.
rec2_evasion(p) ==
  /\ Resumes(p, "rec2_evasion")
  /\ \E o \in PageOp(proc[p].tgt) :
       /\ Charge(o.cost)
       /\ Move(p, IF o.res = "ok" /\ page # 0 THEN Goto(proc[p], "recoveryReturned")
                  ELSE Raise(proc[p], "recoveryCatch", IF o.res = "ok" THEN "NullPage" ELSE o.res))
  /\ UNCHANGED <<sessionVars, worldVars, idleVars, fixedVars, enterVars, otherVars>>

\* Lines 537-545: the page is closed, then the browser if there is one.
rec3_closePage(p) ==
  /\ Resumes(p, "rec3_closePage")
  /\ \E o \in PageClose(proc[p].tgt) :
       /\ Charge(o.cost)
       /\ IF o.res = "ok"
          THEN /\ ClosePages({proc[p].tgt})
               /\ IF browser # 0
                  THEN /\ Move(p, Suspend(proc[p], "rec3_closeBrowser", browser))
                       /\ UNCHANGED <<browser, page>>
                  ELSE ClearHandles(p, proc[p])
          ELSE /\ UNCHANGED <<browser, page, pageOwner, navigated, blank, enterVars>>
               /\ Move(p, Raise(proc[p], "recoveryCatch", o.res))
  /\ UNCHANGED <<isInitializing, timeSinceLastSearch, idleTimer, browserOpen, idleVars,
                 fixedVars, otherVars>>

\* Lines 541-545: the browser is closed, both handles are cleared.
rec3_closeBrowser(p) ==
  /\ Resumes(p, "rec3_closeBrowser")
  /\ \E o \in BrowserClose(proc[p].tgt) :
       /\ Charge(o.cost)
       /\ IF o.res = "ok"
          THEN /\ CloseBrowser(proc[p].tgt)
               /\ ClearHandles(p, proc[p])
          ELSE /\ NothingCloses
               /\ UNCHANGED <<browser, page>>
               /\ Move(p, Raise(proc[p], "recoveryCatch", o.res))
  /\ UNCHANGED <<isInitializing, timeSinceLastSearch, idleTimer, idleVars, fixedVars, otherVars>>

\* Lines 545-546: the recovery wait is over, initializeBrowser is called.
rec3_wait(p) ==
  /\ Resumes(p, "rec3_wait")
  /\ proc[p].timer = 0
  /\ Move(p, Goto(proc[p], "initializeBrowser"))
  /\ UNCHANGED <<sessionVars, worldVars, idleVars, envVars, enterVars, otherVars>>

\* The recursive call of line 557 handed the error it caught.
FallbackError_Caught(recoveryError) == recoveryError

\* The error handed to the recursive call of line 557.
FallbackError(recoveryError) == "FallbackRecovery"

\* The catch block calling the procedure again after a failed full restart too.
recoveryCatch_FallsBackAgain(p) ==
  /\ Runs(p, "recoveryCatch")
  /\ Move(p, [proc[p] EXCEPT !.pc = "recoveryProcedure", !.err = "FallbackRecovery",
                              !.errLevel = 0])
  /\ UNCHANGED <<sessionVars, worldVars, idleVars, envVars, enterVars, otherVars>>

\* The catch block, lines 551-561: below the full restart the procedure calls
\* itself with the fallback error; a failed full restart is rethrown, and
\* leaves every active call of recoveryProcedure.
recoveryCatch(p) ==
  /\ Runs(p, "recoveryCatch")
  /\ LET r == proc[p]
     IN Move(p, IF CurLevel(r) < FullRestart
                THEN [r EXCEPT !.pc = "recoveryProcedure", !.err = FallbackError(r.err),
                               !.errLevel = 0]
                ELSE [r EXCEPT !.pc = "recoveryFailed"])
  /\ UNCHANGED <<sessionVars, worldVars, idleVars, envVars, enterVars, otherVars>>

\* recoveryProcedure returned to the retry loop: retryCount++ (708, 718, 822).
recoveryReturned(p) ==
  /\ Runs(p, "recoveryReturned")
  /\ Move(p, [Goto(proc[p], "attempt") EXCEPT !.retryCount = @ + 1])
  /\ UNCHANGED <<sessionVars, worldVars, idleVars, envVars, enterVars, otherVars>>

\* recoveryProcedure threw into the retry loop.  The calls of lines 707 and
\* 717 are inside the try block, the call of line 816 is inside its catch block.
recoveryFailed(p) ==
  /\ Runs(p, "recoveryFailed")
  /\ Move(p, [proc[p] EXCEPT !.pc = IF proc[p].site = "catch" THEN "callFailed" ELSE "catch",
                             !.levels = <<>>])
  /\ UNCHANGED <<sessionVars, worldVars, idleVars, envVars, enterVars, otherVars>>

(***************************************************************************)
(* The idle callback installed by resetIdleTimeout, lines 569-589.         *)
(***************************************************************************)
\* The timer fires: lines 570-580 up to the first await.  The timer expires
\* IDLE_TIMEOUT_MS (line 173) after the last tool call armed it; an awaited
\* browser operation, and so a call with its retries and recovery waits, takes
\* any time, so the expiry can fall at any await of a call in flight.  Every
\* call armed the timer when it started (line 622), so the calls in flight at
\* the expiry have been in flight for IDLE_TIMEOUT_MS or longer.
idleFire ==
  /\ running = "none"
  /\ idlePc = "off"
  /\ \E t \in pendingTimers : pendingTimers' = pendingTimers \ {t}
  /\ fullPeriod' = IF clockFollowed THEN {p \in Procs : proc[p].pc # "none"} ELSE fullPeriod
  /\ UNCHANGED <<idleTimeout, clockFollowed>>
  /\ IF page # 0
     THEN idlePc' = "closePage" /\ idleTgt' = page /\ UNCHANGED isInitializing
     ELSE IF browser # 0
     THEN idlePc' = "closeBrowser" /\ idleTgt' = browser /\ UNCHANGED isInitializing
     ELSE isInitializing' = FALSE /\ UNCHANGED idleVars
  /\ UNCHANGED <<browser, page, timeSinceLastSearch, worldVars, proc, running, envVars,
                 enterVars, otherVars>>

\* Lines 573-580, and the catch block of lines 582-588 when the close throws.
idleClosePage ==
  /\ running = "none"
  /\ idlePc = "closePage"
  /\ \E o \in PageClose(idleTgt) :
       /\ Charge(o.cost)
       /\ page' = 0
       /\ IF o.res = "ok"
          THEN /\ ClosePages({idleTgt})
               /\ IF browser # 0
                  THEN idlePc' = "closeBrowser" /\ idleTgt' = browser /\ UNCHANGED isInitializing
                  ELSE idlePc' = "off" /\ idleTgt' = 0 /\ isInitializing' = FALSE
               /\ UNCHANGED browser
          ELSE /\ UNCHANGED <<pageOwner, navigated, blank, enterVars>>
               /\ browser' = 0
               /\ isInitializing' = FALSE
               /\ idlePc' = "off"
               /\ idleTgt' = 0
  /\ UNCHANGED <<timeSinceLastSearch, idleTimer, browserOpen, proc, running, fixedVars, otherVars>>

\* Lines 577-580, and the catch block of lines 582-588 when the close throws.
idleCloseBrowser ==
  /\ running = "none"
  /\ idlePc = "closeBrowser"
  /\ \E o \in BrowserClose(idleTgt) :
       /\ Charge(o.cost)
       /\ browser' = 0
       /\ isInitializing' = FALSE
       /\ IF o.res = "ok"
          THEN CloseBrowser(idleTgt) /\ UNCHANGED page
          ELSE NothingCloses /\ page' = 0
  /\ idlePc' = "off"
  /\ idleTgt' = 0
  /\ UNCHANGED <<timeSinceLastSearch, idleTimer, proc, running, fixedVars, otherVars>>

(***************************************************************************)
(* Time passes while every handler is suspended: the timers run down and   *)
(* the two elapsed times grow.                                             *)
(***************************************************************************)
Tick(ms) ==
  /\ running = "none"
  /\ timeSinceLastSearch' = Min(timeSinceLastSearch + ms, SEARCH_COOLDOWN)
  /\ timeSinceEnter' = Min(timeSinceEnter + ms, SEARCH_COOLDOWN)
  /\ proc' = [p \in Procs |-> [proc[p] EXCEPT !.timer = Max(@ - ms, 0)]]
  /\ UNCHANGED <<browser, page, isInitializing, idleTimer, worldVars, running, idleVars,
                 envVars, lastEnterPage, otherVars>>

TickFine == Tick(FineTick)
TickCoarse == Tick(CoarseTick)

\* The steps of the handler p.
Handler(p) ==
  \/ callTool(p) \/ callReturned(p) \/ callFailed(p)
  \/ performSearch(p) \/ afterInit(p) \/ rateLimit(p) \/ rateWait(p)
  \/ attempt(p) \/ captcha(p) \/ findInput(p) \/ clearInput(p) \/ typeQuery(p)
  \/ pressEnter(p) \/ waitForAnswer(p) \/ waitForGeneration(p) \/ extract(p)
  \/ catch(p)
  \/ initializeBrowser(p) \/ initReturned(p) \/ init_close(p) \/ init_launch(p)
  \/ init_newPage(p) \/ init_evasion(p) \/ init_navigate(p)
  \/ recoveryProcedure(p) \/ rec1_reload(p) \/ rec2_closePage(p) \/ rec2_newPage(p)
  \/ rec2_evasion(p) \/ rec3_closePage(p) \/ rec3_closeBrowser(p) \/ rec3_wait(p)
  \/ recoveryCatch(p) \/ recoveryReturned(p) \/ recoveryFailed(p)

\* Two overlapping tool calls within one idle period, a bounded number of
\* faults, the coarse clock.
Next ==
  \/ \E p \in Procs : Handler(p)
  \/ TickCoarse
Spec == Init /\ [][Next]_vars

\* One caller, tool listings and the idle callback, which may fire while a
\* call is running, the coarse clock.
NextIdle ==
  \/ \E p \in Procs : Handler(p)
  \/ listTools
  \/ idleFire
  \/ idleClosePage
  \/ idleCloseBrowser
  \/ TickCoarse
SpecIdle == InitIdle /\ [][NextIdle]_vars

\* Two overlapping tool calls and the idle callback; the environment injects no
\* fault, the failures are those the teardown causes, and no tool listing is
\* requested.
NextIdleRace ==
  \/ \E p \in Procs : Handler(p)
  \/ idleFire
  \/ idleClosePage
  \/ idleCloseBrowser
  \/ TickCoarse
SpecIdleRace == InitIdleRace /\ [][NextIdleRace]_vars

\* One caller making two calls and the idle callback, with the age of the calls
\* followed.
InitIdleClock ==
  /\ InitSession
  /\ proc = [p \in Procs |-> InitProc(IF p = "s1" THEN 2 ELSE 0)]
  /\ faultsLeft = MaxFaults
  /\ inputExposed = TRUE
  /\ challengeShown = FALSE
  /\ followed = [p \in Procs |-> MaxRaceRecoveries]
  /\ classifyInput = NoError
  /\ NormalizeOff
  /\ ExtractOff
  /\ ProbeOff
  /\ NavigateOff
  /\ PollOff
  /\ clockFollowed = TRUE
  /\ chatIds = {1}
SpecIdleClock == InitIdleClock /\ [][NextIdleRace]_vars

\* One caller making two calls in sequence, with the fine clock, within one idle
\* period (the idle timer does not expire).
NextSeq ==
  \/ \E p \in Procs : Handler(p)
  \/ TickFine
SpecSeq == InitSeq /\ [][NextSeq]_vars
\* The same, with every awaited browser operation and every timer delay
\* completing or throwing in the end: a handler that can go on does go on, and
\* time passes while the handlers wait.
FairSpecSeq ==
  /\ SpecSeq
  /\ WF_vars(TickFine)
  /\ \A p \in Procs : WF_vars(Handler(p))

\* One caller making two calls in sequence, each under any of the
\* conversation identifiers.
InitChat ==
  /\ InitSession
  /\ proc = [p \in Procs |-> InitProc(IF p = "s1" THEN 2 ELSE 0)]
  /\ faultsLeft = MaxFaults
  /\ inputExposed \in BOOLEAN
  /\ challengeShown \in (IF inputExposed THEN BOOLEAN ELSE {FALSE})
  /\ followed = [p \in Procs |-> 2 * MAX_RETRIES + 2]
  /\ classifyInput = NoError
  /\ NormalizeOff
  /\ ExtractOff
  /\ ProbeOff
  /\ NavigateOff
  /\ PollOff
  /\ ClockOff
  /\ chatIds = ChatIds
SpecChat == InitChat /\ [][NextSeq]_vars

(***************************************************************************)
(* The SIGINT handler installed by the constructor, lines 196-205.  It is  *)
(* an async function that nothing awaits: when an awaited call in it       *)
(* throws, the rest of it does not run and the promise it returned is      *)
(* rejected with no handler; the runtime then ends the process or only     *)
(* reports the rejection, according to its version and its options.        *)
(***************************************************************************)
\* The process has ended: nothing runs any more.
exited == running = "exited"

\* The signal arrives: lines 196-198 up to the await, or lines 197-202 when
\* this.browser is null.
sigint ==
  /\ running = "none"
  /\ sigPc = "off"
  /\ IF browser # 0
     THEN sigPc' = "closeBrowser" /\ sigTgt' = browser /\ UNCHANGED dbOpen
     ELSE sigPc' = "serverClose" /\ sigTgt' = 0 /\ dbOpen' = FALSE
  /\ UNCHANGED <<sessionVars, worldVars, proc, running, idleVars, envVars, enterVars,
                 funVars, chatVars>>
\* Line 198 resumes: browser.close() has completed, and lines 200-202 close the
\* database; or it has thrown.  this.browser is left as it is.
sigCloseBrowser ==
  /\ running = "none"
  /\ sigPc = "closeBrowser"
  /\ \E o \in BrowserClose(sigTgt) :
       /\ Charge(o.cost)
       /\ IF o.res = "ok"
          THEN /\ CloseBrowser(sigTgt)
               /\ dbOpen' = FALSE
               /\ sigPc' = "serverClose"
               /\ UNCHANGED running
          ELSE /\ NothingCloses
               /\ UNCHANGED dbOpen
               /\ sigPc' = "rejected"
               /\ running' \in {"none", "exited"}
  /\ UNCHANGED <<sessionVars, proc, idleVars, fixedVars, funVars, chatVars, sigTgt>>
\* Lines 203-204: the server is closed and process.exit(0) ends the process.
sigServerClose ==
  /\ running = "none"
  /\ sigPc = "serverClose"
  /\ sigPc' = "exit"
  /\ running' = "exited"
  /\ UNCHANGED <<sessionVars, worldVars, proc, idleVars, envVars, enterVars,
                 funVars, chatVars, dbOpen, sigTgt>>

\* One caller making two calls, and a shutdown request at any moment.
NextShutdown ==
  \/ \E p \in Procs : Handler(p)
  \/ sigint
  \/ sigCloseBrowser
  \/ sigServerClose
  \/ TickCoarse
SpecShutdown == InitIdle /\ [][NextShutdown]_vars

(***************************************************************************)
(* Classification on its own: determineRecoveryLevel applied to an error   *)
(* drawn from a set of messages built of fragments with and without the    *)
(* markers, in several cases of letters.                                   *)
(***************************************************************************)
FragNone ==
  <<>>
FragErrorPrefix ==
  <<"E","r","r","o","r",":"," ">>
FragWasDetached ==
  <<" ","w","a","s"," ","d","e","t","a","c","h","e","d">>
FragExceeded ==
  <<" ","o","f"," ","4","5","0","0","0"," ","m","s"," ","e","x","c","e","e","d","e","d">>
FragFailure ==
  <<" ","f","a","i","l","u","r","e">>
CoreFrame ==
  <<"F","r","a","m","e">>
CoreFrameLower ==
  <<"f","r","a","m","e">>
CoreFrameUpper ==
  <<"F","R","A","M","E">>
CoreDetached ==
  <<"D","e","t","a","c","h","e","d">>
CoreTimeout ==
  <<"t","i","m","e","o","u","t">>
CoreTimeoutUpper ==
  <<"T","I","M","E","O","U","T">>
CoreNavigationTimeout ==
  <<"N","a","v","i","g","a","t","i","o","n"," ","t","i","m","e","o","u","t">>
CoreNavigation ==
  <<"n","a","v","i","g","a","t","i","o","n">>
CoreUnknown ==
  <<"U","n","k","n","o","w","n">>
CoreFram ==
  <<"f","r","a","m">>
CoreTimeOut ==
  <<"t","i","m","e"," ","o","u","t">>
CoreNavigate ==
  <<"n","a","v","i","g","a","t","e">>
CoreCaptcha ==
  <<"C","a","p","t","c","h","a"," ","d","e","t","e","c","t","e","d">>
Prefixes == {FragNone, FragErrorPrefix}
Suffixes == {FragNone, FragWasDetached, FragExceeded, FragFailure}
Cores ==
  {CoreFrame, CoreFrameLower, CoreFrameUpper, CoreDetached, CoreTimeout, CoreTimeoutUpper,
   CoreNavigationTimeout, CoreNavigation, CoreUnknown, CoreFram, CoreTimeOut, CoreNavigate,
   CoreCaptcha}
ClassifyInputs ==
  {NoError} \cup {ErrorOf(a \o b \o c) : a \in Prefixes, b \in Cores, c \in Suffixes}

InitClassify ==
  /\ InitSession
  /\ proc = [p \in Procs |-> InitProc(0)]
  /\ faultsLeft = 0
  /\ inputExposed = TRUE
  /\ challengeShown = FALSE
  /\ followed = [p \in Procs |-> 0]
  /\ classifyInput \in ClassifyInputs
  /\ NormalizeOff
  /\ ExtractOff
  /\ ProbeOff
  /\ NavigateOff
  /\ PollOff
  /\ ClockOff
  /\ chatIds = {1}

\* The call of line 507 on its own.
classify ==
  /\ classifyResult = 0
  /\ classifyResult' = determineRecoveryLevel(classifyInput)
  /\ UNCHANGED <<sessionVars, worldVars, proc, running, idleVars, envVars, enterVars, chatVars, pollVars,
                 shutdownVars, navVars,
                 classifyInput, normalizeVars, extractVars, probeVars>>

NextClassify == classify
SpecClassify == InitClassify /\ [][NextClassify]_vars


(***************************************************************************)
(* The clean-up of the extracted answer, lines 801-805: three replace      *)
(* calls in a row.  A text is the sequence of its characters.              *)
(***************************************************************************)
\* The longest answer that is cleaned.
MaxAnswerLen == 6
\* The characters of the answers: a space, a newline and a letter.
AnswerChars == {" ", "\n", "a"}
\* The characters the class \s of the regular expressions matches.
Whitespace == {" ", "\n", "\t", "\r"}

\* The length of the run of characters of cls that s starts with.
RunLength(s, cls) ==
  CHOOSE n \in 0..Len(s) :
    /\ \A i \in 1..n : s[i] \in cls
    /\ n = Len(s) \/ s[n + 1] \notin cls
\* s.replace(/c{min,}/g, repl) for a character class: the matches are the
\* maximal runs of at least min characters of cls, from left to right.
RECURSIVE replaceRuns(_, _, _, _)
replaceRuns(s, cls, min, repl) ==
  IF s = <<>> THEN <<>>
  ELSE LET n == RunLength(s, cls)
       IN IF n = 0 THEN <<Head(s)>> \o replaceRuns(Tail(s), cls, min, repl)
          ELSE (IF n >= min THEN repl ELSE SubSeq(s, 1, n))
                 \o replaceRuns(SubSeq(s, n + 1, Len(s)), cls, min, repl)
\* Line 803, .replace(/^\s+|\s+$/g, ''): the whitespace s starts with and the
\* whitespace it ends with are removed.
trimWhitespace(s) ==
  LET lead == RunLength(s, Whitespace)
      rest == SubSeq(s, lead + 1, Len(s))
      last == CHOOSE n \in 0..Len(rest) :
                /\ \A i \in (n + 1)..Len(rest) : rest[i] \in Whitespace
                /\ n = 0 \/ rest[n] \notin Whitespace
  IN SubSeq(rest, 1, last)
\* Line 804, .replace(/\n{3,}/g, '\n\n').
normalizeNewlines(s) == replaceRuns(s, {"\n"}, 3, <<"\n", "\n">>)
\* .replace(/\s{2}/g, ' '): every two whitespace characters become one space.
RECURSIVE normalizeSpaces_Pairs(_)
normalizeSpaces_Pairs(s) ==
  IF Len(s) < 2 THEN s
  ELSE IF s[1] \in Whitespace /\ s[2] \in Whitespace
       THEN <<" ">> \o normalizeSpaces_Pairs(SubSeq(s, 3, Len(s)))
       ELSE <<Head(s)>> \o normalizeSpaces_Pairs(Tail(s))
\* Line 805, .replace(/\s{2,}/g, ' ').
normalizeSpaces(s) == replaceRuns(s, Whitespace, 2, <<" ">>)
\* Lines 802-805, the three calls in the order of the code.
cleanAnswer(s) == normalizeSpaces(normalizeNewlines(trimWhitespace(s)))

RECURSIVE Texts(_)
Texts(n) ==
  IF n = 0 THEN {<<>>}
  ELSE Texts(n - 1) \cup {Append(t, c) : t \in Texts(n - 1), c \in AnswerChars}

\* No request is made: the session as constructed.
InitQuiet ==
  /\ InitSession
  /\ proc = [p \in Procs |-> InitProc(0)]
  /\ faultsLeft = 0
  /\ inputExposed = TRUE
  /\ challengeShown = FALSE
  /\ followed = [p \in Procs |-> 0]
  /\ classifyInput = NoError
  /\ chatIds = {1}

InitNormalize ==
  /\ InitQuiet
  /\ ExtractOff
  /\ ProbeOff
  /\ NavigateOff
  /\ PollOff
  /\ ClockOff
  /\ answerContent \in Texts(MaxAnswerLen)
  /\ cleanedAnswer = <<>>
  /\ cleanedAgain = <<>>
  /\ cleanCount = 0

\* Lines 802-805 applied to the extracted answer.
clean ==
  /\ cleanCount = 0
  /\ cleanedAnswer' = cleanAnswer(answerContent)
  /\ cleanCount' = 1
  /\ UNCHANGED <<sessionVars, worldVars, proc, running, idleVars, envVars, enterVars, chatVars, pollVars,
                 shutdownVars, navVars,
                 classifyVars, answerContent, cleanedAgain, extractVars, probeVars>>
\* Lines 802-805 applied to a text they have produced.
cleanAgain ==
  /\ cleanCount = 1
  /\ cleanedAgain' = cleanAnswer(cleanedAnswer)
  /\ cleanCount' = 2
  /\ UNCHANGED <<sessionVars, worldVars, proc, running, idleVars, envVars, enterVars, chatVars, pollVars,
                 shutdownVars, navVars,
                 classifyVars, answerContent, cleanedAnswer, extractVars, probeVars>>

NextNormalize == clean \/ cleanAgain
SpecNormalize == InitNormalize /\ [][NextNormalize]_vars

(***************************************************************************)
(* The extraction of the answer, lines 788-799: one page.evaluate call     *)
(* over the answer selectors of lines 743-748.  The text of an element is  *)
(* the selector that matches it followed by its position among the         *)
(* matches, so that the source of every part of the result is visible.     *)
(***************************************************************************)
\* The most elements a selector matches.
MaxMatches == 2
\* Lines 743-748.
answerSelectors ==
  <<".prose", "[data-answer-id]", ".text-token-text-primary p", ".markdown-content">>
\* The visible text of a page without answer elements, and of an empty page.
BodyTexts == {<<"body">>, <<>>}

\* Line 791, Array.from(document.querySelectorAll(selector)) followed by the
\* map of line 794: the texts of the elements that the i-th selector matches.
querySelectorAll(i) == [j \in 1..domMatches[i] |-> <<answerSelectors[i], ToString(j)>>]
\* Line 794, .join('\n\n').
RECURSIVE join(_, _)
join(texts, sep) ==
  IF texts = <<>> THEN <<>>
  ELSE IF Len(texts) = 1 THEN texts[1]
  ELSE texts[1] \o sep \o join(Tail(texts), sep)
\* The texts of every selector's matches, joined.
RECURSIVE extractFrom_Union(_)
extractFrom_Union(i) ==
  IF i > Len(answerSelectors) THEN <<>>
  ELSE LET rest == extractFrom_Union(i + 1)
           here == join(querySelectorAll(i), <<"\n", "\n">>)
       IN IF here = <<>> THEN rest
          ELSE IF rest = <<>> THEN here ELSE here \o <<"\n", "\n">> \o rest
\* Lines 790-798: the loop over the selectors from the i-th on, and the
\* fallback of line 798 after it.
RECURSIVE extractFrom(_)
extractFrom(i) ==
  IF i > Len(answerSelectors) THEN bodyInnerText
  ELSE LET elements == querySelectorAll(i)
       IN IF Len(elements) > 0 THEN join(elements, <<"\n", "\n">>)
          ELSE extractFrom(i + 1)

InitExtract ==
  /\ InitQuiet
  /\ NormalizeOff
  /\ ProbeOff
  /\ NavigateOff
  /\ PollOff
  /\ ClockOff
  /\ domMatches \in [1..Len(answerSelectors) -> 0..MaxMatches]
  /\ bodyInnerText \in BodyTexts
  /\ extracted = <<>>
  /\ extractDone = FALSE

\* Lines 788-799.
extractAnswer ==
  /\ ~extractDone
  /\ extracted' = extractFrom(1)
  /\ extractDone' = TRUE
  /\ UNCHANGED <<sessionVars, worldVars, proc, running, idleVars, envVars, enterVars, chatVars, pollVars,
                 shutdownVars, navVars,
                 classifyVars, normalizeVars, domMatches, bodyInnerText, probeVars>>

NextExtract == extractAnswer
SpecExtract == InitExtract /\ [][NextExtract]_vars

(***************************************************************************)
(* The probe for the search input, waitForSearchInput, lines 438-475, on a *)
(* page that does not change during the probe.                             *)
(***************************************************************************)
\* What the page holds for a candidate selector: no element, an element that
\* is not visible, a visible element with the attribute disabled, a visible
\* element with aria-hidden="true", a visible element with neither.
CandidateStates == {"absent", "hidden", "disabled", "ariaHidden", "ok"}

\* Lines 452-455, waitForSelector(selector, {timeout: 5000, visible: true}):
\* resolves to the element when it is there and visible, throws the timeout
\* error otherwise.
waitForSelectorResolves(i) == candidates[i] \notin {"absent", "hidden"}
\* The element is not disabled; its aria-hidden attribute is not looked at.
isInteractive_DisabledOnly(i) ==
  /\ candidates[i] # "absent"
  /\ candidates[i] # "disabled"
\* Lines 457-460: el && !el.hasAttribute('disabled') &&
\* el.getAttribute('aria-hidden') !== 'true'.
isInteractive(i) ==
  /\ candidates[i] # "absent"
  /\ candidates[i] # "disabled"
  /\ candidates[i] # "ariaHidden"

InitProbe ==
  /\ InitQuiet
  /\ NormalizeOff
  /\ ExtractOff
  /\ NavigateOff
  /\ PollOff
  /\ ClockOff
  /\ candidates \in [1..Len(possibleSelectors) -> CandidateStates]
  /\ probeIndex = 1
  /\ probePc = "wait"
  /\ probeTried = {}
  /\ searchInputSelector = possibleSelectors[1]
  /\ probeResult = "pending"

\* Line 450: the loop goes on to the next candidate, or ends.
NextCandidate ==
  /\ probeIndex' = probeIndex + 1
  /\ probePc' = IF probeIndex = Len(possibleSelectors) THEN "screenshot" ELSE "wait"
\* Lines 451-455 and, when the wait throws, the catch of lines 467-469.
probe_waitForSelector ==
  /\ probePc = "wait"
  /\ probeTried' = probeTried \cup {probeIndex}
  /\ IF waitForSelectorResolves(probeIndex)
     THEN probePc' = "evaluate" /\ UNCHANGED probeIndex
     ELSE NextCandidate
  /\ UNCHANGED <<sessionVars, worldVars, proc, running, idleVars, envVars, enterVars, chatVars, pollVars,
                 shutdownVars, navVars,
                 classifyVars, normalizeVars, extractVars,
                 candidates, searchInputSelector, probeResult>>
\* Lines 456-466.
probe_evaluate ==
  /\ probePc = "evaluate"
  /\ IF isInteractive(probeIndex)
     THEN /\ searchInputSelector' = possibleSelectors[probeIndex]
          /\ probeResult' = possibleSelectors[probeIndex]
          /\ probePc' = "done"
          /\ UNCHANGED probeIndex
     ELSE NextCandidate /\ UNCHANGED <<searchInputSelector, probeResult>>
  /\ UNCHANGED <<sessionVars, worldVars, proc, running, idleVars, envVars, enterVars, chatVars, pollVars,
                 shutdownVars, navVars,
                 classifyVars, normalizeVars, extractVars, candidates, probeTried>>
\* Lines 471-474: the screenshot is awaited outside the try; when it throws,
\* the probe throws instead of returning null.
probe_screenshot ==
  /\ probePc = "screenshot"
  /\ probeResult' \in {"null", "threw"}
  /\ probePc' = "done"
  /\ UNCHANGED <<sessionVars, worldVars, proc, running, idleVars, envVars, enterVars, chatVars, pollVars,
                 shutdownVars, navVars,
                 classifyVars, normalizeVars, extractVars,
                 candidates, probeIndex, probeTried, searchInputSelector>>

NextProbe == probe_waitForSelector \/ probe_evaluate \/ probe_screenshot
SpecProbe == InitProbe /\ [][NextProbe]_vars

(***************************************************************************)
(* navigateToPerplexity, lines 289-361, step by step on a page that is not *)
(* null.  navFixture says what the browser does in this navigation: which  *)
(* calls of goto complete, the URL of the page after the load, what        *)
(* waitForSearchInput gives, and whether the screenshots of lines 340 and  *)
(* 351 complete.                                                           *)
(***************************************************************************)
\* A URL is the host and what follows it; page.url() is the whole string.
Scheme == <<"h","t","t","p","s",":","/","/">>
HostTarget == <<"w","w","w",".","p","e","r","p","l","e","x","i","t","y",".","a","i">>
HostTargetBare == <<"p","e","r","p","l","e","x","i","t","y",".","a","i">>
HostOther == <<"e","x","a","m","p","l","e",".","c","o","m">>
RestRoot == <<"/">>
RestNext == <<"/","l","o","g","i","n","?","n","e","x","t","=","p","e","r","p","l","e","x","i","t","y",".","a","i">>
Urls == [host : {HostTarget, HostTargetBare, HostOther}, rest : {RestRoot, RestNext}]
href(url) == Scheme \o url.host \o url.rest
\* Line 331, pageUrl.includes('perplexity.ai').
urlAccepted(pageUrl) == includes(pageUrl, HostTargetBare)

NavFixtures ==
  [goto : [1..Len(waitUntilOptions) -> BOOLEAN], url : Urls,
   input : {"found", "null", "threw"}, shot : BOOLEAN, shotInCatch : BOOLEAN]

InitNavigate ==
  /\ InitQuiet
  /\ NormalizeOff
  /\ ExtractOff
  /\ ProbeOff
  /\ PollOff
  /\ ClockOff
  /\ navFixture \in NavFixtures
  /\ navPc = "goto"
  /\ navIndex = 1
  /\ navTried = <<>>
  /\ navigationSuccessful = FALSE
  /\ navError = "none"
  /\ navResult = "pending"

\* The loop takes every strategy, whatever the earlier ones did.
strategyLoopGoesOn_NoBreak(successful, i) == i < Len(waitUntilOptions)
\* Lines 298-299: after the i-th strategy the loop takes the next one when
\* there is one and navigationSuccessful is false.
strategyLoopGoesOn(successful, i) == ~successful /\ i < Len(waitUntilOptions)

\* Lines 298-318: one iteration of the loop, and lines 316-318 after the last.
nav_goto ==
  /\ navPc = "goto"
  /\ navTried' = Append(navTried, waitUntilOptions[navIndex])
  /\ LET successful == navigationSuccessful \/ navFixture.goto[navIndex]
     IN /\ navigationSuccessful' = successful
        /\ IF strategyLoopGoesOn(successful, navIndex)
           THEN navIndex' = navIndex + 1 /\ UNCHANGED <<navPc, navError>>
           ELSE /\ UNCHANGED navIndex
                /\ IF successful
                   THEN navPc' = "settle" /\ UNCHANGED navError
                   ELSE navPc' = "catch" /\ navError' = "AllNavigationFailed"
  /\ UNCHANGED <<sessionVars, worldVars, proc, running, idleVars, envVars, enterVars, chatVars, pollVars,
                 shutdownVars, classifyVars, normalizeVars, extractVars, probeVars,
                 navFixture, navResult>>
\* Lines 320-334: the settle time, the title (a throw of title() is swallowed
\* at line 327), and the test of the URL.
nav_settle ==
  /\ navPc = "settle"
  /\ IF urlAccepted(href(navFixture.url))
     THEN navPc' = "findInput" /\ UNCHANGED navError
     ELSE navPc' = "catch" /\ navError' = "UnexpectedUrl"
  /\ UNCHANGED <<sessionVars, worldVars, proc, running, idleVars, envVars, enterVars, chatVars, pollVars,
                 shutdownVars, classifyVars, normalizeVars, extractVars, probeVars,
                 navFixture, navIndex, navTried, navigationSuccessful, navResult>>
\* Lines 336-344: waitForSearchInput returns a selector or null, or throws.
nav_findInput ==
  /\ navPc = "findInput"
  /\ CASE navFixture.input = "found" ->
            navPc' = "done" /\ navResult' = "returned" /\ UNCHANGED navError
       [] navFixture.input = "null" ->
            navPc' = "screenshot" /\ UNCHANGED <<navResult, navError>>
       [] OTHER ->
            navPc' = "catch" /\ navError' = "ScreenshotFailed" /\ UNCHANGED navResult
  /\ UNCHANGED <<sessionVars, worldVars, proc, running, idleVars, envVars, enterVars, chatVars, pollVars,
                 shutdownVars, classifyVars, normalizeVars, extractVars, probeVars,
                 navFixture, navIndex, navTried, navigationSuccessful>>
\* Lines 340-341: the screenshot, awaited inside the outer try only, then the
\* throw.
nav_screenshot ==
  /\ navPc = "screenshot"
  /\ navPc' = "catch"
  /\ navError' = IF navFixture.shot THEN "NoInputAfterNavigation" ELSE "ScreenshotFailed"
  /\ UNCHANGED <<sessionVars, worldVars, proc, running, idleVars, envVars, enterVars, chatVars, pollVars,
                 shutdownVars, classifyVars, normalizeVars, extractVars, probeVars,
                 navFixture, navIndex, navTried, navigationSuccessful, navResult>>
\* Lines 346-359: the screenshot inside its own try/catch, then the error
\* that was caught is thrown again.
nav_catch ==
  /\ navPc = "catch"
  /\ navPc' = "done"
  /\ navResult' = navError
  /\ UNCHANGED <<sessionVars, worldVars, proc, running, idleVars, envVars, enterVars, chatVars, pollVars,
                 shutdownVars, classifyVars, normalizeVars, extractVars, probeVars,
                 navFixture, navIndex, navTried, navigationSuccessful, navError>>

NextNavigate == nav_goto \/ nav_settle \/ nav_findInput \/ nav_screenshot \/ nav_catch
SpecNavigate == InitNavigate /\ [][NextNavigate]_vars

(***************************************************************************)
(* The wait for the answer, lines 750-808, on a page that stays usable:    *)
(* the wait for an answer container, the poll for the end of the           *)
(* generation, the wait of line 784 and the extraction.  The page shows or *)
(* does not show an answer container, a button with aria-label "Stop" and  *)
(* an element of class animate-pulse; the last two change between polls.   *)
(***************************************************************************)
ANSWER_WAIT_TIMEOUT == 120000
checkInterval == 1000

\* The selectors of lines 767-769, in the order of the || chain.
generatingSelectors ==
  <<"button[aria-label=\"Stop\"]", "button:contains(\"Stop\")", ".animate-pulse">>
\* document.querySelector parses its argument as a CSS selector and throws a
\* SyntaxError on one that is not: :contains() is a jQuery extension, no CSS
\* pseudo-class.
validSelector(i) == i # 2
\* Whether the page shows an element that the i-th selector matches.
querySelector(dom, i) ==
  CASE i = 1 -> dom.ariaStop
    [] i = 3 -> dom.pulse
    [] OTHER -> FALSE
\* Lines 766-771, the function evaluated in the page: the || chain calls
\* querySelector from the i-th selector on until one matches; !!stopButton is
\* returned, or the exception of a call leaves the function.
RECURSIVE stopButton(_, _)
stopButton(dom, i) ==
  IF i > Len(generatingSelectors) THEN "false"
  ELSE IF ~validSelector(i) THEN "threw"
  ELSE IF querySelector(dom, i) THEN "true"
  ELSE stopButton(dom, i + 1)

PollDoms == [container : BOOLEAN, ariaStop : BOOLEAN, pulse : BOOLEAN]

InitPoll ==
  /\ InitQuiet
  /\ NormalizeOff
  /\ ExtractOff
  /\ ProbeOff
  /\ NavigateOff
  /\ ClockOff
  /\ pollDom \in PollDoms
  /\ pollPc = "waitForSelector"
  /\ pollElapsed = 0
  /\ isGenerating = TRUE
  /\ pollResult = "pending"

\* Lines 752-755: an answer container is visible, or the wait throws its
\* TimeoutError into the try block.  Lines 761-763 follow.
poll_waitForSelector ==
  /\ pollPc = "waitForSelector"
  /\ IF pollDom.container
     THEN pollPc' = "poll" /\ UNCHANGED pollResult
     ELSE pollPc' = "failed" /\ pollResult' = "TimeoutError"
  /\ UNCHANGED <<sessionVars, worldVars, proc, running, idleVars, envVars, enterVars, chatVars,
                 shutdownVars, classifyVars, normalizeVars, extractVars, probeVars, navVars,
                 pollDom, pollElapsed, isGenerating>>

\* Lines 765-776: the head of the poll loop and the evaluate of one round.
poll_evaluate ==
  /\ pollPc = "poll"
  /\ IF isGenerating /\ pollElapsed < ANSWER_WAIT_TIMEOUT
     THEN LET found == stopButton(pollDom, 1)
          IN CASE found = "threw" ->
                    pollPc' = "failed" /\ pollResult' = "SyntaxError" /\ UNCHANGED isGenerating
               [] found = "false" ->
                    pollPc' = "render" /\ isGenerating' = FALSE /\ UNCHANGED pollResult
               [] OTHER ->
                    pollPc' = "sleep" /\ isGenerating' = TRUE /\ UNCHANGED pollResult
     ELSE pollPc' = "render" /\ UNCHANGED <<isGenerating, pollResult>>
  /\ UNCHANGED <<sessionVars, worldVars, proc, running, idleVars, envVars, enterVars, chatVars,
                 shutdownVars, classifyVars, normalizeVars, extractVars, probeVars, navVars,
                 pollDom, pollElapsed>>

\* Lines 779-780: the wait between two rounds, during which the page goes on
\* rendering.
poll_sleep ==
  /\ pollPc = "sleep"
  /\ pollPc' = "poll"
  /\ pollElapsed' = pollElapsed + checkInterval
  /\ \E d \in PollDoms : d.container = pollDom.container /\ pollDom' = d
  /\ UNCHANGED <<sessionVars, worldVars, proc, running, idleVars, envVars, enterVars, chatVars,
                 shutdownVars, classifyVars, normalizeVars, extractVars, probeVars, navVars,
                 isGenerating, pollResult>>

\* Line 784.
poll_render ==
  /\ pollPc = "render"
  /\ pollPc' = "extract"
  /\ UNCHANGED <<sessionVars, worldVars, proc, running, idleVars, envVars, enterVars, chatVars,
                 shutdownVars, classifyVars, normalizeVars, extractVars, probeVars, navVars,
                 pollDom, pollElapsed, isGenerating, pollResult>>

\* Lines 788-808: the extraction and the return of the cleaned answer.
poll_extract ==
  /\ pollPc = "extract"
  /\ pollPc' = "done"
  /\ pollResult' = "returned"
  /\ UNCHANGED <<sessionVars, worldVars, proc, running, idleVars, envVars, enterVars, chatVars,
                 shutdownVars, classifyVars, normalizeVars, extractVars, probeVars, navVars,
                 pollDom, pollElapsed, isGenerating>>

NextPoll == poll_waitForSelector \/ poll_evaluate \/ poll_sleep \/ poll_render \/ poll_extract
SpecPoll == InitPoll /\ [][NextPoll]_vars

(***************************************************************************)
(* The claims.                                                             *)
(***************************************************************************)

\* C1: in every reachable state, whatever the interleaving of setup, recovery,
\* the idle callback and search calls, the page handle is not non-null while
\* the browser handle is null.
C1_PageImpliesBrowser == page # 0 => browser # 0

\* C2: while one setup is between setting and clearing the guard, no other
\* caller invokes puppeteer.launch.
C2_NoLaunchDuringSetup ==
  [][\A p \in Procs :
       (proc[p].pc # "init_launch" /\ proc'[p].pc = "init_launch")
         => \A q \in Procs \ {p} : proc[q].pc \notin SetupAwaits]_vars

\* C3: whenever initializeBrowser returns normally to its caller, the second
\* caller during a setup included, both handles are non-null and navigation
\* and selector discovery have completed on the page.
C3_SetupReturnsReady ==
  \A p \in Procs :
    proc[p].pc = "initReturned" => browser # 0 /\ page # 0 /\ page \in navigated

\* C4: whenever recoveryProcedure returns normally, both handles are non-null
\* and refer to a browser and a page that have not been closed.
C4_RecoveryReturnsUsable ==
  \A p \in Procs :
    proc[p].pc = "recoveryReturned"
      => /\ browser # 0 /\ browser \in browserOpen
         /\ page # 0 /\ PageLive(page)

\* C5: when the remediation of a level below FullRestart throws, the next
\* remediation of the same recover call is FullRestart (no level is tried a
\* third time), and an error that leaves recoveryProcedure was thrown by the
\* FullRestart remediation, never by the lower one.
C5_EscalatesToFullRestart ==
  \A p \in Procs :
    LET r == proc[p]
    IN /\ Len(r.levels) <= 2
       /\ Len(r.levels) = 2 => r.levels[1] < FullRestart /\ r.levels[2] = FullRestart
       /\ r.pc = "recoveryFailed" => r.errLevel = FullRestart
\* C5 witness: a remediation below FullRestart threw, FullRestart was tried
\* next and threw too.
C5_Escalated ==
  \E p \in Procs :
    /\ Len(proc[p].levels) = 2
    /\ proc[p].levels[1] \in {Reload, NewPage}
    /\ proc[p].pc = "recoveryFailed"

\* C6: when a FullRestart remediation fails during a search call, the call
\* ends with that error, wherever in the loop the recovery was invoked: no
\* further attempt and no further recovery.
C6_FullRestartFailureIsFatal ==
  [][\A p \in Procs :
       proc[p].pc = "recoveryFailed"
         => proc'[p].pc = "callFailed" /\ proc'[p].err = proc[p].err]_vars

\* The level the claim C7 gives: case-insensitive containment of a marker,
\* character by character.
C7_HasMarker(msg, marker) ==
  \E i \in 0..(Len(msg) - Len(marker)) :
    \A j \in 1..Len(marker) : toLowerCaseChar(msg[i + j]) = marker[j]
C7_Expected(error) ==
  CASE ~error.present -> FullRestart
    [] error.present /\ (C7_HasMarker(error.message, MarkerFrame)
                           \/ C7_HasMarker(error.message, MarkerDetached)) -> NewPage
    [] error.present /\ ~C7_HasMarker(error.message, MarkerFrame)
         /\ ~C7_HasMarker(error.message, MarkerDetached)
         /\ (C7_HasMarker(error.message, MarkerTimeout)
               \/ C7_HasMarker(error.message, MarkerNavigation)) -> Reload
    [] OTHER -> FullRestart
\* C7: the classification depends on the error alone: absent gives
\* FullRestart, a frame or detachment marker gives NewPage, otherwise a
\* timeout or navigation marker gives Reload, anything else FullRestart;
\* 'Frame was detached' gives NewPage, 'Navigation timeout of 45000 ms
\* exceeded' gives Reload, 'Unknown failure' gives FullRestart; the Session is
\* left as it was.
C7_Classification ==
  classifyResult # 0 =>
    /\ classifyResult = C7_Expected(classifyInput)
    /\ classifyInput = NoError => classifyResult = FullRestart
    /\ classifyInput = ErrorOf(MsgFrameDetached) => classifyResult = NewPage
    /\ classifyInput = ErrorOf(MsgNavigationTimeout) => classifyResult = Reload
    /\ classifyInput = ErrorOf(MsgUnknownFailure) => classifyResult = FullRestart
    /\ browser = 0 /\ page = 0 /\ ~isInitializing
\* C7 witness: a message with the marker in capitals only has been classified.
C7_ClassifiedCapitals ==
  /\ classifyInput = ErrorOf(CoreFrameUpper)
  /\ classifyResult = NewPage

\* C8 as stated: one search call starts at most 10 attempts.
C8_AtMostTenAttempts == \A p \in Procs : proc[p].attempts <= MAX_RETRIES
\* C8 as amended: one search call starts at most MAX_RETRIES + 1 = 11
\* attempts, the first and at most MAX_RETRIES retries.
C8_AtMostElevenAttempts == \A p \in Procs : proc[p].attempts <= MAX_RETRIES + 1
\* C8 witness: a call has started its eleventh attempt.
C8_EleventhAttempt == \E p \in Procs : proc[p].attempts = MAX_RETRIES + 1

\* C9: when the page never exposes a candidate input selector (and the
\* environment injects no fault), a search call that entered the retry loop
\* fails with the retries-exhausted error after exactly MAX_RETRIES recovery
\* invocations made by the pipeline.
C9_ExactlyMaxRecoveries ==
  \A p \in Procs :
    (/\ ~inputExposed
     /\ faultsLeft = MaxFaults
     /\ proc[p].pc = "none"
     /\ proc[p].outcome # "none"
     /\ proc[p].attempts > 0)
      => /\ proc[p].outcome \in {"RetriesExhausted", "MaxRetriesExceeded"}
         /\ proc[p].recoveries = MAX_RETRIES

\* The step in which the Enter of line 737 is delivered for caller p.
C10_Submits(p) ==
  /\ proc[p].pc = "press"
  /\ proc'[p].pc = "answer" \/ (proc'[p].pc = "catch" /\ proc'[p].err = "NullPage")
\* C10: of two submissions (Enter pressed) to the same page, the later one
\* does not happen before SEARCH_COOLDOWN has elapsed since the earlier one.
C10_CooldownBetweenSubmissions ==
  [][\A p \in Procs :
       (C10_Submits(p) /\ lastEnterPage = proc[p].tgt)
         => timeSinceEnter >= SEARCH_COOLDOWN]_vars

\* n copies of the character c.
C11_Repeat(c, n) == [i \in 1..n |-> c]
\* C11: a run of 3 or more newlines between two paragraphs is returned as
\* exactly two newlines: the paragraph break is kept, not turned into a space.
C11_ParagraphBreakKept ==
  \A i, j \in 1..MaxAnswerLen, k \in 3..MaxAnswerLen :
    (/\ cleanCount > 0
     /\ answerContent = C11_Repeat("a", i) \o C11_Repeat("\n", k) \o C11_Repeat("a", j))
      => cleanedAnswer = C11_Repeat("a", i) \o <<"\n", "\n">> \o C11_Repeat("a", j)

\* C12: cleaning a cleaned answer again gives the same text.
C12_Idempotent == cleanCount = 2 => cleanedAgain = cleanedAnswer
\* C12 witness: a text that the clean-up changed, in its ends and inside, has
\* been cleaned twice.
C12_CleanedTwice ==
  /\ cleanCount = 2
  /\ answerContent = <<" ", "a", " ", "\n", " ", "a">>
  /\ cleanedAnswer = <<"a", " ", "a">>

\* The selectors whose elements have a part in the text t.
C13_SourcesOf(t) ==
  {i \in 1..Len(answerSelectors) : \E k \in 1..Len(t) : t[k] = answerSelectors[i]}
\* C13: the raw answer is made of all the matches of the first answer
\* selector that matches anything and of no other selector's matches; the
\* visible text of the page is the answer only when no selector matches.
C13_FirstMatchingSelectorOnly ==
  extractDone =>
    LET matching == {i \in 1..Len(answerSelectors) : domMatches[i] > 0}
    IN IF matching = {}
       THEN extracted = bodyInnerText
       ELSE LET first == CHOOSE i \in matching : \A k \in matching : i <= k
            IN /\ C13_SourcesOf(extracted) = {first}
               /\ Len(SelectSeq(extracted, LAMBDA x : x = answerSelectors[first]))
                    = domMatches[first]
               /\ Len(SelectSeq(extracted, LAMBDA x : x = "\n"))
                    = 2 * (domMatches[first] - 1)
\* C13 witness: the first and the second selector both match and the answer is
\* the two matches of the first.
C13_TwoSelectorsMatch ==
  /\ extractDone
  /\ domMatches[1] = 2
  /\ domMatches[2] > 0
  /\ extracted = <<".prose", "1", "\n", "\n", ".prose", "2">>

\* C14: the probe returns the first candidate, in the order of the list, that
\* is visible, enabled and not aria-hidden, having tried exactly the
\* candidates up to it; when no candidate is such, every candidate has been
\* tried before the probe ends without a selector.
C14_FirstQualifyingCandidate ==
  probeResult # "pending" =>
    LET qualifying == {i \in 1..Len(possibleSelectors) : candidates[i] = "ok"}
    IN IF qualifying = {}
       THEN /\ probeResult \in {"null", "threw"}
            /\ probeTried = 1..Len(possibleSelectors)
       ELSE LET first == CHOOSE i \in qualifying : \A k \in qualifying : i <= k
            IN /\ probeResult = possibleSelectors[first]
               /\ searchInputSelector = possibleSelectors[first]
               /\ probeTried = 1..first
\* C14 witness: only the third candidate qualifies, the first is absent and
\* the second is aria-hidden; the probe returned the third.
C14_ThirdCandidateFound ==
  /\ candidates[1] = "absent"
  /\ candidates[2] = "ariaHidden"
  /\ \A i \in 1..Len(possibleSelectors) : candidates[i] = "ok" <=> i = 3
  /\ probeResult = "textarea.w-full"

\* C15: a throw of the challenge check is taken as "no challenge": the step
\* that ends checkForCaptcha never enters the catch block of the retry loop.
C15_ChallengeCheckNeverFailsAttempt ==
  [][\A p \in Procs : proc[p].pc = "captcha" => proc'[p].pc # "catch"]_vars

\* The idle callback ends in this step.
C16_CallbackEnds == idlePc # "off" /\ idlePc' = "off"
\* C16: however its closes end, the idle callback leaves the page handle and
\* the browser handle null and the setup guard false, with the browser that
\* the Session held closed.
C16_TeardownResetsAndCloses ==
  [][C16_CallbackEnds =>
       /\ page' = 0
       /\ browser' = 0
       /\ ~isInitializing'
       /\ browser \notin browserOpen']_vars

\* C17: at most one idle callback is pending, and it is the one of the timer
\* set last: a timer that a later reset replaced is not pending any more.
C17_OneTimerPending ==
  /\ Cardinality(pendingTimers) <= 1
  /\ pendingTimers \subseteq {idleTimeout}
\* C17 witness: a tool call has been served and the timer it set has fired and
\* torn the Session down; a later request has set the timer again.
C17_TimerSetAgain ==
  /\ proc["s1"].outcome = "ok"
  /\ proc["s1"].pc = "none"
  /\ browser = 0
  /\ browserOpen = {}
  /\ idlePc = "off"
  /\ pendingTimers = {idleTimeout}

\* C18: when the idle callback ends while no request is being served, the
\* page and browser handles are null and no browser process is left.
C18_ExpiryReleasesBrowser ==
  [][(/\ C16_CallbackEnds
      /\ \A p \in Procs : proc[p].pc = "none")
       => /\ page' = 0
          /\ browser' = 0
          /\ browserOpen' = {}]_vars

\* C19: when the process has ended after a shutdown request, the database is
\* closed and so is the browser that the Session held at the request.
C19_ClosedBeforeExit ==
  (exited /\ sigPc # "off") => (~dbOpen /\ sigTgt \notin browserOpen)

\* The messages recorded under the conversation identifier c.
C20_Recorded(c) == {messages[c][i] : i \in 1..Len(messages[c])}
\* C20: after a tool call that returned an answer, its query is recorded as a
\* user message and its answer as an assistant message under the call's
\* conversation identifier, whether or not the conversation had messages
\* before; after a call that failed, no answer to its query is recorded.
C20_QueryAndAnswerRecorded ==
  \A p \in Procs :
    LET r == proc[p]
    IN (r.pc = "none" /\ r.outcome # "none") =>
         IF r.outcome = "ok"
         THEN /\ userMessage(r.query) \in C20_Recorded(r.chatId)
              /\ assistantMessage(r.query) \in C20_Recorded(r.chatId)
         ELSE assistantMessage(r.query) \notin C20_Recorded(r.chatId)

\* C21: a step of the setup that throws clears the guard and hands the error
\* to the caller of the setup, and leaves the browser handle and the browser
\* it names as they were.
C21_SetupFailureClearsGuard ==
  [][\A p \in Procs :
       (/\ proc[p].pc \in SetupAwaits
        /\ proc'[p].pc \in {"callFailed", "recoveryCatch"})
         => /\ ~isInitializing'
            /\ proc'[p].err # "none"
            /\ browser' = browser
            /\ browserOpen' = browserOpen]_vars
\* C21 witness: the page creation of the first setup failed: the call is
\* failing with that error, the guard is clear and the launched browser is
\* still held and open.
C21_SetupFailedAfterLaunch ==
  /\ proc["s1"].pc = "callFailed"
  /\ proc["s1"].attempts = 0
  /\ proc["s1"].err \in EnvErrors
  /\ ~isInitializing
  /\ browser # 0
  /\ browser \in browserOpen
  /\ page = 0

\* C22: the load strategies are attempted in the order of the list, each only
\* after every earlier one threw, and none after one that completed; the
\* navigation ends with "all strategies failed" exactly when all three threw.
C22_StrategiesInOrder ==
  navResult # "pending" =>
    LET ok == {i \in 1..Len(waitUntilOptions) : navFixture.goto[i]}
        last == IF ok = {} THEN Len(waitUntilOptions)
                ELSE CHOOSE i \in ok : \A k \in ok : i <= k
    IN /\ navTried = SubSeq(waitUntilOptions, 1, last)
       /\ (navResult = "AllNavigationFailed") <=> (ok = {})
       /\ navResult = "returned" => ok # {}
\* C22 witness: the first strategy threw, the second completed and the third
\* was left out; the navigation returned.
C22_SecondStrategyAccepted ==
  /\ navResult = "returned"
  /\ ~navFixture.goto[1]
  /\ navFixture.goto[2]
  /\ navTried = <<"networkidle2", "domcontentloaded">>

\* The host is perplexity.ai or a subdomain of it.
C23_OnTargetDomain(url) ==
  \/ url.host = HostTargetBare
  \/ /\ Len(url.host) > Len(HostTargetBare) + 1
     /\ SubSeq(url.host, Len(url.host) - Len(HostTargetBare), Len(url.host))
          = <<".">> \o HostTargetBare
\* C23: the navigation returns normally only when a load strategy completed,
\* the URL of the page is on the target domain and an input selector was
\* found.
C23_ReturnsOnlyOnTargetDomain ==
  navResult = "returned" =>
    /\ \E i \in 1..Len(waitUntilOptions) : navFixture.goto[i]
    /\ C23_OnTargetDomain(navFixture.url)
    /\ navFixture.input = "found"

\* C24: when no candidate selector qualifies, the probe returns null and does
\* not throw, whether or not its screenshot could be taken.
C24_ProbeReturnsNone ==
  (/\ probeResult # "pending"
   /\ \A i \in 1..Len(possibleSelectors) : candidates[i] # "ok")
    => probeResult = "null"

\* The handler p takes a step of a recovery of the given level: the step that
\* enters recoveryProcedure at that level, or a later step of it.
C25_StepOfLevel(p, level) ==
  /\ proc'[p].pc # proc[p].pc
  /\ proc[p].pc \in {"recoveryProcedure", "rec1_reload", "rec2_closePage", "rec2_newPage",
                     "rec2_evasion"}
  /\ IF proc[p].pc = "recoveryProcedure" THEN CurLevel(proc'[p]) = level
     ELSE CurLevel(proc[p]) = level
\* C25: no step of a Reload recovery changes the browser handle, the page
\* handle or the time of the last search; no step of a NewPage recovery
\* changes the browser handle, and a NewPage recovery that completes leaves a
\* page handle that does not name a closed page.
C25_OnlyFullRestartChangesBrowser ==
  [][\A p \in Procs :
       /\ C25_StepOfLevel(p, Reload)
            => /\ browser' = browser
               /\ page' = page
               /\ timeSinceLastSearch' = timeSinceLastSearch
       /\ C25_StepOfLevel(p, NewPage)
            => /\ browser' = browser
               /\ (proc'[p].pc = "recoveryReturned" /\ page' # 0) => PageLive(page')]_vars

\* The handler p goes from the rate limit to the retry loop in this step.
C26_EntersLoop(p) ==
  /\ proc[p].pc \in {"rateLimit", "rateWait"}
  /\ proc'[p].pc = "attempt"
C27_Before(pc) ==
  CASE pc = "findInput" -> "captcha"
    [] pc = "clear" -> "findInput"
    [] pc = "type" -> "clear"
    [] pc = "press" -> "type"
    [] pc = "answer" -> "press"
C28_OnlyMissingContainerFails == pollPc = "failed" => ~pollDom.container

\* C29, as stated: a call that has started an attempt ends with an error only
\* when the retry counter has reached the maximum, and then with the
\* retries-exhausted error of line 819 or 826; while retries remain every exception
\* leads to a recovery and a new attempt.
C29_FailsOnlyWhenRetriesExhausted ==
  \A p \in Procs :
    (proc[p].pc = "callFailed" /\ proc[p].attempts > 0)
      => /\ proc[p].retryCount >= MAX_RETRIES
         /\ proc[p].err \in {"MaxRetriesExceeded", "RetriesExhausted"}
\* C29, amended: an exception that reaches the catch block while retries
\* remain makes exactly one call of recoveryProcedure, with that error and
\* the retry counter unchanged; when the recovery returns, the retry counter
\* grows by one and the next attempt starts; when the recovery itself throws,
\* the call ends with the recovery's error and the retry counter as it was.
\* At the maximum the catch block calls no recovery and ends the call with the
\* retries-exhausted error; a call that started an attempt ends with an error
\* in no other way, but for the loop left at line 826 after a recovery of lines
\* 707 or 717.  The pipeline calls recovery at no other place than the head of
\* an attempt, the challenge check, the input search and the catch block.
C29_CatchRecoversOnceOrEndsCall ==
  [][\A p \in Procs :
       /\ (proc[p].pc = "catch" /\ proc'[p].pc # "catch")
            => IF proc[p].retryCount < MAX_RETRIES
               THEN /\ proc'[p].pc = "recoveryProcedure"
                    /\ proc'[p].site = "catch"
                    /\ proc'[p].err = proc[p].err
                    /\ proc'[p].recoveries = proc[p].recoveries + 1
                    /\ proc'[p].retryCount = proc[p].retryCount
               ELSE /\ proc'[p].pc = "callFailed"
                    /\ proc'[p].err = "MaxRetriesExceeded"
                    /\ proc'[p].recoveries = proc[p].recoveries
       /\ (proc[p].pc = "recoveryReturned" /\ proc[p].site = "catch"
             /\ proc'[p].pc # "recoveryReturned")
            => /\ proc'[p].pc = "attempt"
               /\ proc'[p].retryCount = proc[p].retryCount + 1
               /\ proc'[p].recoveries = proc[p].recoveries
       /\ (proc[p].pc = "recoveryFailed" /\ proc'[p].pc # "recoveryFailed")
            => /\ proc'[p].pc = (IF proc[p].site = "catch" THEN "callFailed" ELSE "catch")
               /\ proc'[p].err = proc[p].err
               /\ proc'[p].retryCount = proc[p].retryCount
               /\ proc'[p].recoveries = proc[p].recoveries
       /\ proc'[p].recoveries # proc[p].recoveries
            => \/ proc[p].pc \in {"attempt", "captcha", "findInput", "catch"}
               \/ proc'[p].recoveries = 0
       /\ (proc[p].pc = "callFailed" /\ proc[p].attempts > 0)
            => \/ proc[p].retryCount = MAX_RETRIES /\ proc[p].err = "MaxRetriesExceeded"
               \/ proc[p].retryCount > MAX_RETRIES /\ proc[p].err = "RetriesExhausted"
               \/ proc[p].retryCount < MAX_RETRIES /\ proc[p].site = "catch"]_vars
\* C29 witness: the first attempt of a call threw, the catch block called
\* recovery once, the recovery returned and the second attempt is about to
\* start.
C29_RecoveredAfterException ==
  \E p \in Procs :
    /\ proc[p].pc = "attempt"
    /\ proc[p].site = "catch"
    /\ proc[p].retryCount = 1
    /\ proc[p].recoveries = 1

\* C30: nothing holds a call back while another call is between its
\* submission and its extraction on the same page: whenever every handler is
\* suspended, the call p waits for its answer, polls or is about to extract,
\* and the call q is about to clear, type into or submit the input of the same
\* open page, q's step can be taken next, and q's Enter is delivered to the
\* page p extracts from.
C30_NothingSerializesCalls ==
  \A p, q \in Procs :
    (/\ p # q
     /\ running = "none"
     /\ proc[p].pc \in {"answer", "generating", "extract"}
     /\ proc[q].tgt = proc[p].tgt
     /\ PageLive(proc[p].tgt))
      => /\ proc[q].pc = "clear" => ENABLED (clearInput(q) /\ proc'[q].pc = "type")
         /\ proc[q].pc = "type" => ENABLED (typeQuery(q) /\ proc'[q].pc = "press")
         /\ proc[q].pc = "press"
              => ENABLED (pressEnter(q) /\ proc'[q].pc = "answer"
                            /\ lastEnterPage' = proc[p].tgt)
\* C30 witness: the call p submitted its query and waited for the answer; the
\* call q has just submitted its own query on the same page, and p is about to
\* extract the answer from that page.
C30_SubmittedBeforeOtherExtracts ==
  \E p, q \in Procs :
    /\ p # q
    /\ proc[p].pc = "extract"
    /\ proc[q].pc = "answer"
    /\ proc[q].tgt = proc[p].tgt
    /\ PageLive(proc[p].tgt)
    /\ lastEnterPage = proc[p].tgt
    /\ timeSinceEnter = 0

\* C31: the idle callback takes a step during a call in flight only when that
\* call has been in flight for a full idle period: the callback starts under
\* no younger call, and it resumes after its page.close() or its
\* browser.close() under no younger call.
C31_TeardownOnlyUnderOldCalls ==
  [][\A p \in Procs :
       /\ (idlePc = "off" /\ idlePc' # "off" /\ proc[p].pc # "none") => p \in fullPeriod'
       /\ (idlePc # "off" /\ idlePc' # idlePc /\ proc[p].pc # "none") => p \in fullPeriod]_vars

\* C32: every call in flight ends in the end, with a text or with an error;
\* and at no time are more than two calls of recoveryProcedure active in a
\* handler, the second of them being the full restart made as the fallback of
\* a lower level.
C32_CallsEndAndRecoveryDepthTwo ==
  /\ [](\A p \in Procs :
          /\ Len(proc[p].levels) <= 2
          /\ Len(proc[p].levels) = 2
               => proc[p].levels[1] < FullRestart /\ proc[p].levels[2] = FullRestart)
  /\ \A p \in Procs : (proc[p].pc # "none") ~> (proc[p].pc = "none" /\ proc[p].outcome # "none")
\* C32 witness: a call has ended with the retries-exhausted error after a
\* recovery in every attempt.
C32_EndedAfterAllRetries ==
  \E p \in Procs :
    /\ proc[p].pc = "none"
    /\ proc[p].outcome = "MaxRetriesExceeded"
    /\ proc[p].attempts = MAX_RETRIES + 1
    /\ proc[p].recoveries >= MAX_RETRIES

\* C33: every browser that was launched and is not closed is the one the
\* browser handle names; at most one browser is open.
C33_NoOrphanedBrowser ==
  /\ browserOpen \subseteq {browser}
  /\ Cardinality(browserOpen) <= 1

\* C34: when a NewPage or FullRestart recovery returns normally with a page
\* handle set, navigateToPerplexity has completed on that page.
C34_ReplacedPageIsNavigated ==
  [][\A p \in Procs :
       (/\ proc[p].pc # "recoveryReturned"
        /\ proc'[p].pc = "recoveryReturned"
        /\ CurLevel(proc'[p]) \in {NewPage, FullRestart}
        /\ page' # 0)
         => page' \in navigated']_vars

=============================================================================
